---------------------------- MODULE Spec2Model ----------------------------
(***************************************************************************)
(* Model of the relay pipeline of samvdb/loxone-philips-hue:               *)
(*   - udp.Client (src/udp/client.go): bounded queue, Send, the drain      *)
(*     loop runSender, Close;                                              *)
(*   - client.EventStreamer (src/client/event_streamer.go) and             *)
(*     decodeResource (src/client/events.go): the stream read loop, the    *)
(*     decoder and the dispatch step.                                      *)
(***************************************************************************)
EXTENDS Integers, Sequences, FiniteSets, TLC

(***************************************************************************)
(* Bounds of the model                                                     *)
(***************************************************************************)
\* capacity of the relay queue (cfg.QueueSize; make(chan []byte, QueueSize))
QueueSize == 2
\* number of Send calls the producers make in one behaviour
MaxSends == 4

\* the concurrent callers of Send
Producers == {"p1", "p2"}

\* Send(nil)
Nil == 0

(***************************************************************************)
(* Program constants of the relay sender                                   *)
(***************************************************************************)
maxSendAttempts == 3
\* cfg.BaseBackoff and cfg.MaxBackoff, in abstract time units
BaseBackoff == 5
MaxBackoff == 10
\* the jitter draws of nextBackoff, in percent of the capped value
JitterPct == {-20, 0, 20}

VARIABLES
    \* ---- udp.Client ----
    ch,          \* the buffered channel c.ch: sequence of queued messages
    chClosed,    \* close(c.ch) has run
    ctxDone,     \* c.ctx is cancelled (the shutdown signal)
    conn,        \* c.conn: "nil" or "open"
    remoteUDP,   \* c.remoteUDP: "nil" or "addr"
    sendPc,      \* per producer: position inside Send
    sendMsg,     \* per producer: the message of the Send call in progress
    drainPc,     \* position of runSender
    msg,         \* the message runSender has dequeued (Nil when none)
    attempt,     \* loop variable of the send retry loop
    backoff,     \* runSender's local backoff
    closePc,     \* position of Close
    panicked,    \* the process has crashed (send on closed channel)
    \* ---- history of the relay sender ----
    calledLog,   \* the non-nil messages handed to Send, in call order
    enqLog,      \* messages inserted into the channel, in insertion order
    deqLog,      \* messages runSender has dequeued, in dequeue order
    evicted,     \* messages removed from the channel by Send
    discarded,   \* messages Send dropped because the retry found no room
    removed,     \* per producer: messages the call in progress has removed
    concurrent,  \* two Send calls have overlapped
    writesOf,    \* socket write attempts made for the message in flight
    lateDequeue, \* the message in flight was dequeued after the shutdown signal
    \* ---- client.EventStreamer ----
    runPc,       \* position of Run / streamOnce
    sBackoff,    \* Run's local backoff, in seconds
    sCtxDone,    \* the context handed to Run is cancelled
    buf,         \* streamOnce's buf: the payloads of the data: lines so far
    hRecs,       \* the records of the frame the last step handed to handle
    hOut,        \* the messages that handle call gave to Send
    hErr,        \* how the last stream attempt or frame failed ("none" if not)
    sFrameOk,    \* the current attempt has dispatched a frame without error
    \* ---- decodeResource applied to one record ----
    dPc,         \* "input" before, "done" after
    dRec,        \* the raw record
    dEv,         \* what decodeResource returned for it
    dOut,        \* the messages its dispatch gave to Send
    \* ---- udp.parseCommand applied to one line ----
    pPc,         \* "input" before, "done" after
    pLine,       \* the line: a sequence of characters
    pRes,        \* what parseCommand returned for it
    \* ---- the backoff of runSender under a configuration ----
    bPc,         \* "off", "loop" (in the send loop) or "sent" (after a success)
    bBase,       \* cfg.BaseBackoff
    bMax,        \* cfg.MaxBackoff
    bCur,        \* runSender's local backoff
    bSlept,      \* the delays slept after the write failures since the last success
    \* ---- udp.Client: resolution, sockets and the lock, step by step ----
    kPc,         \* position in NewClient, reconnect, write, isConnReady, Close
    kPhase,      \* "off", "new" (inside NewClient) or "run" (after it returned)
    kRet,        \* where resolve returns to
    kNow,        \* the clock
    kInterval,   \* cfg.ResolveInterval
    kLastResolve,\* c.lastResolve (-1: the zero time.Time)
    kRemote,     \* c.remoteUDP: "nil" or "addr"
    kConn,       \* c.conn: 0 for nil, else the number of a socket
    kLock,       \* c.mu: "free" or "held"
    kLocal,      \* the local conn / remote of the function that runs
    kSockets,    \* the sockets that are open
    kDials,      \* sockets created so far
    kResolveLog, \* the times of the calls of net.ResolveUDPAddr
    \* ---- udp.Server.Run with hue.Adapter ----
    vPc,         \* "off", "read" (in ReadFromUDP), "returned" or "crashed"
    vCtxDone,    \* the context handed to Run is cancelled
    vRet,        \* what Run returned
    vLast,       \* what became of the last datagram
    vCmd,        \* the last Command handed to Apply
    vLightOn,    \* the bridge: the grouped light is on
    vBri,        \* the bridge: its brightness
    vSeen        \* datagrams read so far

udpVars == <<ch, chClosed, ctxDone, conn, remoteUDP, sendPc, sendMsg, drainPc,
             msg, attempt, backoff, closePc, panicked>>
udpHist == <<calledLog, enqLog, deqLog, evicted, discarded, removed,
             concurrent, writesOf, lateDequeue>>

streamVars == <<runPc, sBackoff, sCtxDone, buf, hRecs, hOut, hErr, sFrameOk>>
decodeVars == <<dPc, dRec, dEv, dOut>>
parseVars == <<pPc, pLine, pRes>>
backoffVars == <<bPc, bBase, bMax, bCur, bSlept>>
connVars == <<kPc, kPhase, kRet, kNow, kInterval, kLastResolve, kRemote, kConn,
              kLock, kLocal, kSockets, kDials, kResolveLog>>
serverVars == <<vPc, vCtxDone, vRet, vLast, vCmd, vLightOn, vBri, vSeen>>

vars == <<udpVars, udpHist, streamVars, decodeVars, parseVars, backoffVars,
          connVars, serverVars>>

(***************************************************************************)
(* Helpers                                                                 *)
(***************************************************************************)
Min(a, b) == IF a <= b THEN a ELSE b

(***************************************************************************)
(* Pure functions of the relay sender                                      *)
(***************************************************************************)
\* a backoff step that does not double
nextBackoffOf_noDoubling(base, max, curr, pct) ==
    LET c == IF curr <= 0 THEN base ELSE curr
        next == Min(c, max)
    IN  (next * (100 + pct)) \div 100

\* nextBackoff under the configuration (base, max): double, cap at max, then
\* add jitter of pct percent; time.Duration(float64) truncates.
nextBackoffOf(base, max, curr, pct) ==
    LET c == IF curr <= 0 THEN base ELSE curr
        next == Min(c * 2, max)
    IN  (next * (100 + pct)) \div 100

\* nextBackoff with the configuration of the relay sender of Spec
nextBackoff(curr, pct) == nextBackoffOf(BaseBackoff, MaxBackoff, curr, pct)

\* retryable: timeouts, temporary errors and the listed errnos are retried;
\* everything else (errors.New("no UDP connection") included) is not.
WriteErrors == {"timeout", "ECONNREFUSED", "ENETUNREACH", "EHOSTUNREACH",
                "ECONNRESET", "EPIPE", "EINVAL", "no UDP connection"}

\* a classification that retries every error
retryable_everything(err) == TRUE

retryable(err) ==
    err \in {"timeout", "ECONNREFUSED", "ENETUNREACH", "EHOSTUNREACH",
             "ECONNRESET", "EPIPE"}

\* isConnReady
isConnReady == conn # "nil" /\ remoteUDP # "nil"

\* the channel as Go sees it at a send: room for one more element
chHasRoom_offByOne(q) == Len(q) <= QueueSize

chHasRoom(q) == Len(q) < QueueSize

\* a receive from the channel hands out the element at the front
chRecv_newest(q) == [val |-> q[Len(q)], rest |-> SubSeq(q, 1, Len(q) - 1)]

chRecv(q) == [val |-> Head(q), rest |-> Tail(q)]


(***************************************************************************)
(* reconnect (ResolveInterval = 0: every reconnect re-resolves).           *)
(* A failed resolve returns before the old socket is touched; otherwise    *)
(* the old socket is closed and cleared, then the dial stores a new one    *)
(* or fails and leaves the handle nil.                                     *)
(***************************************************************************)
ReconnectOutcomes == {"resolveFail", "dialFail", "ok"}

reconnect(out) ==
    CASE out = "resolveFail" -> [conn |-> conn, remoteUDP |-> remoteUDP, err |-> TRUE]
      [] out = "dialFail"    -> [conn |-> "nil", remoteUDP |-> "addr", err |-> TRUE]
      [] OTHER               -> [conn |-> "open", remoteUDP |-> "addr", err |-> FALSE]

(***************************************************************************)
(* NewClient: the state after construction.  The initial resolve+dial may  *)
(* fail (non-fatal), so the client may start without a socket.             *)
(***************************************************************************)
NewClientOutcomes ==
    { [conn |-> "nil",  remoteUDP |-> "nil"],    \* first resolve failed
      [conn |-> "nil",  remoteUDP |-> "addr"],   \* second resolve or dial failed
      [conn |-> "open", remoteUDP |-> "addr"] }

NewClient ==
    /\ ch = <<>>
    /\ chClosed = FALSE
    /\ ctxDone = FALSE
    /\ \E o \in NewClientOutcomes : conn = o.conn /\ remoteUDP = o.remoteUDP
    /\ sendPc = [p \in Producers |-> "idle"]
    /\ sendMsg = [p \in Producers |-> Nil]
    /\ drainPc = "select"
    /\ msg = Nil
    /\ attempt = 0
    /\ backoff = BaseBackoff
    /\ closePc = "idle"
    /\ panicked = FALSE
    /\ calledLog = <<>>
    /\ enqLog = <<>>
    /\ deqLog = <<>>
    /\ evicted = <<>>
    /\ discarded = {}
    /\ removed = [p \in Producers |-> <<>>]
    /\ concurrent = FALSE
    /\ writesOf = 0
    /\ lateDequeue = FALSE

\* NewStreamer: the streamer before Run is called
NewStreamer ==
    /\ runPc = "top"
    /\ sBackoff = 1
    /\ sCtxDone = FALSE
    /\ buf = <<>>
    /\ hRecs = <<>>
    /\ hOut = <<>>
    /\ hErr = "none"
    /\ sFrameOk = FALSE

\* no record is being decoded on its own
NoDecode ==
    /\ dPc = "off"
    /\ dRec = <<>>
    /\ dEv = <<>>
    /\ dOut = <<>>

\* no line is being parsed
NoParse ==
    /\ pPc = "off"
    /\ pLine = <<>>
    /\ pRes = <<>>

\* the backoff arithmetic is not being run on its own
NoBackoff ==
    /\ bPc = "off"
    /\ bBase = 0
    /\ bMax = 0
    /\ bCur = 0
    /\ bSlept = <<>>

\* the client's reconnect is not being run step by step
NoConn ==
    /\ kPc = "off"
    /\ kPhase = "off"
    /\ kRet = "off"
    /\ kNow = 0
    /\ kInterval = 0
    /\ kLastResolve = -1
    /\ kRemote = "nil"
    /\ kConn = 0
    /\ kLock = "free"
    /\ kLocal = 0
    /\ kSockets = {}
    /\ kDials = 0
    /\ kResolveLog = <<>>

\* the command server is not running
NoServer ==
    /\ vPc = "off"
    /\ vCtxDone = FALSE
    /\ vRet = "none"
    /\ vLast = "none"
    /\ vCmd = <<>>
    /\ vLightOn = FALSE
    /\ vBri = 0
    /\ vSeen = 0

(***************************************************************************)
(* Send, one action per channel operation                                  *)
(***************************************************************************)
SendInProgress(p) == sendPc[p] \in {"try", "evict", "retry"}

\* a channel that puts a new message in front of the waiting ones
chSend_inFront(q, b) == <<b>> \o q

\* c.ch <- b: the message goes behind the ones that wait in the channel
chSend(q, b) == Append(q, b)

\* Send(b): a nil argument returns at once; otherwise the first select is next.
Send_call(p, b) ==
    /\ ~panicked
    /\ sendPc[p] = "idle"
    /\ Len(calledLog) < MaxSends
    /\ IF b = Nil
       THEN UNCHANGED <<sendPc, sendMsg, calledLog, removed, concurrent>>
       ELSE /\ sendPc' = [sendPc EXCEPT ![p] = "try"]
            /\ sendMsg' = [sendMsg EXCEPT ![p] = b]
            /\ calledLog' = Append(calledLog, b)
            /\ removed' = [removed EXCEPT ![p] = <<>>]
            /\ concurrent' = (concurrent \/ \E q \in Producers \ {p} : SendInProgress(q))
    /\ UNCHANGED <<ch, chClosed, ctxDone, conn, remoteUDP, drainPc, msg, attempt,
                   backoff, closePc, panicked, enqLog, deqLog, evicted, discarded,
                   writesOf, lateDequeue>>
    /\ UNCHANGED <<streamVars, decodeVars, parseVars, backoffVars, connVars, serverVars>>

\* select { case c.ch <- b: ; default: ... }: a send on a closed channel
\* panics; with room the message is queued; a full queue takes the default.
Send_try(p) ==
    /\ ~panicked
    /\ sendPc[p] = "try"
    /\ IF chClosed
       THEN /\ panicked' = TRUE
            /\ sendPc' = [sendPc EXCEPT ![p] = "panicked"]
            /\ UNCHANGED <<ch, enqLog, sendMsg>>
       ELSE IF chHasRoom(ch)
       THEN /\ ch' = chSend(ch, sendMsg[p])
            /\ enqLog' = Append(enqLog, sendMsg[p])
            /\ sendPc' = [sendPc EXCEPT ![p] = "idle"]
            /\ sendMsg' = [sendMsg EXCEPT ![p] = Nil]
            /\ UNCHANGED panicked
       ELSE /\ sendPc' = [sendPc EXCEPT ![p] = "evict"]
            /\ UNCHANGED <<ch, enqLog, sendMsg, panicked>>
    /\ UNCHANGED <<chClosed, ctxDone, conn, remoteUDP, drainPc, msg, attempt,
                   backoff, closePc, calledLog, deqLog, evicted, discarded,
                   removed, concurrent, writesOf, lateDequeue>>
    /\ UNCHANGED <<streamVars, decodeVars, parseVars, backoffVars, connVars, serverVars>>

\* a Send that leaves the queue alone when it is full
Send_evict_skip(p) ==
    /\ ~panicked
    /\ sendPc[p] = "evict"
    /\ sendPc' = [sendPc EXCEPT ![p] = "retry"]
    /\ UNCHANGED <<ch, evicted, removed>>
    /\ UNCHANGED <<chClosed, ctxDone, conn, remoteUDP, sendMsg, drainPc, msg,
                   attempt, backoff, closePc, panicked, calledLog, enqLog,
                   deqLog, discarded, concurrent, writesOf, lateDequeue>>
    /\ UNCHANGED <<streamVars, decodeVars, parseVars, backoffVars, connVars, serverVars>>

\* select { case <-c.ch: ; default: }: drop the oldest if there is one
\* (a closed channel still hands out what it buffers).
Send_evict(p) ==
    /\ ~panicked
    /\ sendPc[p] = "evict"
    /\ sendPc' = [sendPc EXCEPT ![p] = "retry"]
    /\ IF Len(ch) > 0
       THEN /\ ch' = chRecv(ch).rest
            /\ evicted' = Append(evicted, chRecv(ch).val)
            /\ removed' = [removed EXCEPT ![p] = Append(@, chRecv(ch).val)]
       ELSE UNCHANGED <<ch, evicted, removed>>
    /\ UNCHANGED <<chClosed, ctxDone, conn, remoteUDP, sendMsg, drainPc, msg,
                   attempt, backoff, closePc, panicked, calledLog, enqLog,
                   deqLog, discarded, concurrent, writesOf, lateDequeue>>
    /\ UNCHANGED <<streamVars, decodeVars, parseVars, backoffVars, connVars, serverVars>>

\* select { case c.ch <- b: ; default: warn }: the second insert.
Send_retry(p) ==
    /\ ~panicked
    /\ sendPc[p] = "retry"
    /\ IF chClosed
       THEN /\ panicked' = TRUE
            /\ sendPc' = [sendPc EXCEPT ![p] = "panicked"]
            /\ UNCHANGED <<ch, enqLog, sendMsg, discarded, removed>>
       ELSE /\ sendPc' = [sendPc EXCEPT ![p] = "idle"]
            /\ sendMsg' = [sendMsg EXCEPT ![p] = Nil]
            /\ removed' = [removed EXCEPT ![p] = <<>>]
            /\ UNCHANGED panicked
            /\ IF chHasRoom(ch)
               THEN /\ ch' = chSend(ch, sendMsg[p])
                    /\ enqLog' = Append(enqLog, sendMsg[p])
                    /\ UNCHANGED discarded
               ELSE /\ discarded' = discarded \cup {sendMsg[p]}
                    /\ UNCHANGED <<ch, enqLog>>
    /\ UNCHANGED <<chClosed, ctxDone, conn, remoteUDP, drainPc, msg, attempt,
                   backoff, closePc, calledLog, deqLog, evicted, concurrent,
                   writesOf, lateDequeue>>
    /\ UNCHANGED <<streamVars, decodeVars, parseVars, backoffVars, connVars, serverVars>>

sendVars == <<sendPc, sendMsg, calledLog, enqLog, evicted, discarded,
              removed, concurrent>>

(***************************************************************************)
(* runSender, the drain loop                                               *)
(***************************************************************************)
\* the message in flight is given up (sent, dropped or abandoned): back to
\* the select at the top of the loop
NextMessage ==
    /\ drainPc' = "select"
    /\ msg' = Nil
    /\ attempt' = 0
    /\ writesOf' = 0
    /\ lateDequeue' = FALSE

\* select { case <-c.ctx.Done(): return ; case msg, ok := <-c.ch: ... }
\* Go picks among the ready cases at random.
runSender_ctxDone ==
    /\ ~panicked
    /\ drainPc = "select"
    /\ ctxDone
    /\ drainPc' = "exited"
    /\ UNCHANGED <<ch, chClosed, ctxDone, conn, remoteUDP, msg, attempt, backoff,
                   closePc, panicked, deqLog, writesOf, lateDequeue>>
    /\ UNCHANGED sendVars
    /\ UNCHANGED <<streamVars, decodeVars, parseVars, backoffVars, connVars, serverVars>>

runSender_receive ==
    /\ ~panicked
    /\ drainPc = "select"
    /\ IF Len(ch) > 0
       THEN /\ msg' = chRecv(ch).val
            /\ ch' = chRecv(ch).rest
            /\ deqLog' = Append(deqLog, chRecv(ch).val)
            /\ lateDequeue' = ctxDone
            /\ drainPc' = "ensureConn"
       ELSE /\ chClosed            \* ok = false: return
            /\ drainPc' = "exited"
            /\ UNCHANGED <<msg, ch, deqLog, lateDequeue>>
    /\ UNCHANGED <<chClosed, ctxDone, conn, remoteUDP, attempt, backoff, closePc,
                   panicked, writesOf>>
    /\ UNCHANGED sendVars
    /\ UNCHANGED <<streamVars, decodeVars, parseVars, backoffVars, connVars, serverVars>>

\* if !c.isConnReady() { reconnect; on error bump the backoff and sleep }
runSender_ensureConn ==
    /\ ~panicked
    /\ drainPc = "ensureConn"
    /\ attempt' = 1
    /\ IF isConnReady
       THEN /\ drainPc' = "write"
            /\ UNCHANGED <<conn, remoteUDP, backoff>>
       ELSE \E out \in ReconnectOutcomes :
            LET r == reconnect(out) IN
            /\ conn' = r.conn
            /\ remoteUDP' = r.remoteUDP
            /\ IF r.err
               THEN /\ \E pct \in JitterPct : backoff' = nextBackoff(backoff, pct)
                    /\ drainPc' = "sleepReconnect"
               ELSE /\ backoff' = BaseBackoff
                    /\ drainPc' = "write"
    /\ UNCHANGED <<ch, chClosed, ctxDone, msg, closePc, panicked, deqLog,
                   writesOf, lateDequeue>>
    /\ UNCHANGED sendVars
    /\ UNCHANGED <<streamVars, decodeVars, parseVars, backoffVars, connVars, serverVars>>

\* c.sleep(backoff) after a failed reconnect: ends when the timer fires or
\* the context is cancelled, and the send loop follows in both cases.
runSender_sleepReconnect ==
    /\ ~panicked
    /\ drainPc = "sleepReconnect"
    /\ drainPc' = "write"
    /\ UNCHANGED <<ch, chClosed, ctxDone, conn, remoteUDP, msg, attempt, backoff,
                   closePc, panicked, deqLog, writesOf, lateDequeue>>
    /\ UNCHANGED sendVars
    /\ UNCHANGED <<streamVars, decodeVars, parseVars, backoffVars, connVars, serverVars>>

\* c.write(msg), first half: without a socket it fails at once with
\* errors.New("no UDP connection"), which is not retryable, so the message
\* is dropped; otherwise the socket write starts.
runSender_write ==
    /\ ~panicked
    /\ drainPc = "write"
    /\ IF conn = "nil"
       THEN NextMessage
       ELSE /\ drainPc' = "writing"
            /\ writesOf' = writesOf + 1
            /\ UNCHANGED <<msg, attempt, lateDequeue>>
    /\ UNCHANGED <<ch, chClosed, ctxDone, conn, remoteUDP, backoff, closePc,
                   panicked, deqLog>>
    /\ UNCHANGED sendVars
    /\ UNCHANGED <<streamVars, decodeVars, parseVars, backoffVars, connVars, serverVars>>

\* conn.Write returns (within WriteTimeout): success resets the backoff; a
\* non-retryable error drops the message; a retryable one reconnects and
\* goes to sleep.
WriteResults == {"ok"} \cup (WriteErrors \ {"no UDP connection"})

runSender_writeDone(res) ==
    /\ ~panicked
    /\ drainPc = "writing"
    /\ IF res = "ok"
       THEN /\ backoff' = BaseBackoff
            /\ NextMessage
            /\ UNCHANGED <<conn, remoteUDP>>
       ELSE IF ~retryable(res)
       THEN /\ NextMessage
            /\ UNCHANGED <<conn, remoteUDP, backoff>>
       ELSE \E out \in ReconnectOutcomes :
            LET r == reconnect(out) IN
            /\ conn' = r.conn
            /\ remoteUDP' = r.remoteUDP
            /\ drainPc' = "sleepRetry"
            /\ UNCHANGED <<msg, attempt, backoff, writesOf, lateDequeue>>
    /\ UNCHANGED <<ch, chClosed, ctxDone, closePc, panicked, deqLog>>
    /\ UNCHANGED sendVars
    /\ UNCHANGED <<streamVars, decodeVars, parseVars, backoffVars, connVars, serverVars>>

\* a retry loop that allows one attempt more than maxSendAttempts
runSender_sleepRetry_oneMore(pct) ==
    /\ ~panicked
    /\ drainPc = "sleepRetry"
    /\ backoff' = nextBackoff(backoff, pct)
    /\ IF attempt + 1 <= maxSendAttempts + 1
       THEN /\ attempt' = attempt + 1
            /\ drainPc' = "write"
            /\ UNCHANGED <<msg, writesOf, lateDequeue>>
       ELSE NextMessage
    /\ UNCHANGED <<ch, chClosed, ctxDone, conn, remoteUDP, closePc, panicked,
                   deqLog>>
    /\ UNCHANGED sendVars
    /\ UNCHANGED <<streamVars, decodeVars, parseVars, backoffVars, connVars, serverVars>>

\* a retry loop that puts the message back into the queue when the
\* attempts are exhausted
runSender_sleepRetry_requeue(pct) ==
    /\ ~panicked
    /\ drainPc = "sleepRetry"
    /\ backoff' = nextBackoff(backoff, pct)
    /\ IF attempt + 1 <= maxSendAttempts
       THEN /\ attempt' = attempt + 1
            /\ drainPc' = "write"
            /\ UNCHANGED <<msg, writesOf, lateDequeue, ch>>
       ELSE /\ NextMessage
            /\ ch' = IF chHasRoom(ch) THEN Append(ch, msg) ELSE ch
    /\ UNCHANGED <<chClosed, ctxDone, conn, remoteUDP, closePc, panicked, deqLog>>
    /\ UNCHANGED sendVars
    /\ UNCHANGED <<streamVars, decodeVars, parseVars, backoffVars, connVars, serverVars>>

\* c.sleep(backoff) inside the retry loop ends (timer or cancellation);
\* then backoff = nextBackoff(backoff), attempt++ and the loop test.
runSender_sleepRetry(pct) ==
    /\ ~panicked
    /\ drainPc = "sleepRetry"
    /\ backoff' = nextBackoff(backoff, pct)
    /\ IF attempt + 1 <= maxSendAttempts
       THEN /\ attempt' = attempt + 1
            /\ drainPc' = "write"
            /\ UNCHANGED <<msg, writesOf, lateDequeue>>
       ELSE NextMessage
    /\ UNCHANGED <<ch, chClosed, ctxDone, conn, remoteUDP, closePc, panicked,
                   deqLog>>
    /\ UNCHANGED sendVars
    /\ UNCHANGED <<streamVars, decodeVars, parseVars, backoffVars, connVars, serverVars>>

drainVars == <<drainPc, msg, attempt, backoff, deqLog, writesOf, lateDequeue>>

(***************************************************************************)
(* Close: c.cancel(); close(c.ch); c.wg.Wait(); lock; close the socket     *)
(***************************************************************************)
Close_cancel ==
    /\ ~panicked
    /\ closePc = "idle"
    /\ ctxDone' = TRUE
    /\ closePc' = "closeCh"
    /\ UNCHANGED <<ch, chClosed, conn, remoteUDP, panicked>>
    /\ UNCHANGED <<sendVars, drainVars>>
    /\ UNCHANGED <<streamVars, decodeVars, parseVars, backoffVars, connVars, serverVars>>

Close_closeCh ==
    /\ ~panicked
    /\ closePc = "closeCh"
    /\ chClosed' = TRUE
    /\ closePc' = "wait"
    /\ UNCHANGED <<ch, ctxDone, conn, remoteUDP, panicked>>
    /\ UNCHANGED <<sendVars, drainVars>>
    /\ UNCHANGED <<streamVars, decodeVars, parseVars, backoffVars, connVars, serverVars>>

\* a Close that does not wait for the drain loop
Close_wait_nowait ==
    /\ ~panicked
    /\ closePc = "wait"
    /\ closePc' = "closeConn"
    /\ UNCHANGED <<ch, chClosed, ctxDone, conn, remoteUDP, panicked>>
    /\ UNCHANGED <<sendVars, drainVars>>
    /\ UNCHANGED <<streamVars, decodeVars, parseVars, backoffVars, connVars, serverVars>>

\* c.wg.Wait() returns once runSender has run its deferred wg.Done()
Close_wait ==
    /\ ~panicked
    /\ closePc = "wait"
    /\ drainPc = "exited"
    /\ closePc' = "closeConn"
    /\ UNCHANGED <<ch, chClosed, ctxDone, conn, remoteUDP, panicked>>
    /\ UNCHANGED <<sendVars, drainVars>>
    /\ UNCHANGED <<streamVars, decodeVars, parseVars, backoffVars, connVars, serverVars>>

Close_closeConn ==
    /\ ~panicked
    /\ closePc = "closeConn"
    /\ conn' = "nil"
    /\ closePc' = "done"
    /\ UNCHANGED <<ch, chClosed, ctxDone, remoteUDP, panicked>>
    /\ UNCHANGED <<sendVars, drainVars>>
    /\ UNCHANGED <<streamVars, decodeVars, parseVars, backoffVars, connVars, serverVars>>

\* the parent context handed to NewClient is cancelled (signal handler)
ParentCancel ==
    /\ ~panicked
    /\ ~ctxDone
    /\ ctxDone' = TRUE
    /\ UNCHANGED <<ch, chClosed, conn, remoteUDP, closePc, panicked>>
    /\ UNCHANGED <<sendVars, drainVars>>
    /\ UNCHANGED <<streamVars, decodeVars, parseVars, backoffVars, connVars, serverVars>>

(***************************************************************************)
(* The relay sender                                                        *)
(***************************************************************************)
Init == NewClient /\ NewStreamer /\ NoDecode /\ NoParse /\ NoBackoff /\ NoConn /\ NoServer

Next ==
    \/ \E p \in Producers : \E b \in {Nil, Len(calledLog) + 1} : Send_call(p, b)
    \/ \E p \in Producers : Send_try(p)
    \/ \E p \in Producers : Send_evict(p)
    \/ \E p \in Producers : Send_retry(p)
    \/ runSender_ctxDone
    \/ runSender_receive
    \/ runSender_ensureConn
    \/ runSender_sleepReconnect
    \/ runSender_write
    \/ \E res \in WriteResults : runSender_writeDone(res)
    \/ \E pct \in JitterPct : runSender_sleepRetry(pct)
    \/ Close_cancel
    \/ Close_closeCh
    \/ Close_wait
    \/ Close_closeConn
    \/ ParentCancel

Spec == Init /\ [][Next]_vars


(***************************************************************************)
(* Event decoder (src/client/events.go) and dispatch                       *)
(* (src/client/event_streamer.go, handle).                                 *)
(*                                                                         *)
(* A raw record (one json.RawMessage of a container's data array) is       *)
(* modelled by its JSON shape and, for an object, by the state of each     *)
(* top-level key the decoder can look at: absent ([p |-> "absent"]), of    *)
(* the wrong JSON type for the Go field ([p |-> "bad"]), or well-formed    *)
(* ([p |-> "ok", ...]).  Every resource record of the bridge carries its   *)
(* "id".                                                                   *)
(***************************************************************************)
Absent == [p |-> "absent"]
Bad == [p |-> "bad"]

RecordKeys == {"id", "owner", "on", "contact_report", "motion", "temperature",
               "light", "tamper_reports", "status", "dimming"}

\* the discriminators decodeResource has a case for
KnownTypes == {"light", "contact", "tamper", "zigbee_connectivity", "scene",
               "grouped_light", "motion", "grouped_motion", "light_level",
               "temperature", "geofence_client", "grouped_light_level"}

\* a decoder that unmarshals "grouped_motion" into the plain MotionEvent
structOf_groupedAsPlain(t) ==
    CASE t = "contact"        -> "ContactEvent"
      [] t = "motion"         -> "MotionEvent"
      [] t = "grouped_motion" -> "MotionEvent"
      [] t = "temperature"    -> "TemperatureEvent"
      [] t \in {"light", "light_level"} -> "LightEvent"
      [] OTHER                -> "MutedEvent"

\* the Go struct each case of decodeResource unmarshals into
structOf(t) ==
    CASE t = "light"               -> "LightEvent"
      [] t = "contact"             -> "ContactEvent"
      [] t = "tamper"              -> "TamperEvent"
      [] t = "zigbee_connectivity" -> "ZigbeeConnectivityEvent"
      [] t = "scene"               -> "SceneEvent"
      [] t = "grouped_light"       -> "GroupedLightEvent"
      [] t = "motion"              -> "MotionEvent"
      [] t = "grouped_motion"      -> "GroupedMotionEvent"
      [] t = "light_level"         -> "LightEvent"
      [] t = "temperature"         -> "TemperatureEvent"
      [] t = "geofence_client"     -> "MutedEvent"
      [] t = "grouped_light_level" -> "MutedEvent"
      [] OTHER                     -> "UnknownEvent"

\* the top-level JSON keys each struct declares besides those of the
\* embedded GenericEvent (id, type, owner)
declaredKeys(kind) ==
    CASE kind = "LightEvent"              -> {"on"}
      [] kind = "ContactEvent"            -> {"contact_report"}
      [] kind = "TamperEvent"             -> {"tamper_reports"}
      [] kind = "ZigbeeConnectivityEvent" -> {"status"}
      [] kind = "SceneEvent"              -> {"status"}
      [] kind = "GroupedLightEvent"       -> {"dimming"}
      [] kind = "MotionEvent"             -> {"motion"}
      [] kind = "GroupedMotionEvent"      -> {"motion"}
      [] kind = "TemperatureEvent"        -> {"temperature"}
      [] kind = "LightLevelEvent"         -> {"motion"}   \* its json tags
      [] OTHER                            -> {}

\* json.Unmarshal into a struct fails when a declared key holds a value of
\* the wrong JSON type; keys the struct does not declare are ignored.
unmarshalFails(b, kind) ==
    \E k \in {"id", "owner"} \cup declaredKeys(kind) : b[k].p = "bad"

\* GenericEvent.Owner as decoded: the zero Owner when the key is absent
ownerOf(b) ==
    IF b.owner.p = "ok" THEN [ID |-> b.owner.rid, Type |-> b.owner.rtype]
                        ELSE [ID |-> "", Type |-> ""]

\* the value a declared key decodes to (nil / zero value when absent)
fieldOf(b, kind, k) == IF k \in declaredKeys(kind) THEN b[k] ELSE Absent

decodeError(why) == [err |-> TRUE, why |-> why]

\* the default branch: &UnknownEvent{Raw: b, Type: tp.Type}, nil
decodeUnknown_fails(b, t) == decodeError("unknown type")

decodeUnknown(b, t) ==
    [err |-> FALSE, kind |-> "UnknownEvent", Type |-> t, Raw |-> b,
     Owner |-> [ID |-> "", Type |-> ""]]

decodeKnown(b, t) ==
    LET kind == structOf(t) IN
    IF unmarshalFails(b, kind)
    THEN decodeError(t)
    ELSE [err |-> FALSE, kind |-> kind, Type |-> t, Owner |-> ownerOf(b),
          On |-> fieldOf(b, kind, "on"),
          ContactReport |-> fieldOf(b, kind, "contact_report"),
          Motion |-> fieldOf(b, kind, "motion"),
          Temperature |-> fieldOf(b, kind, "temperature"),
          Light |-> IF kind = "LightLevelEvent" THEN fieldOf(b, kind, "motion")
                                                ELSE Absent]

\* decodeResource: probe the "type" field, then unmarshal into the struct of
\* that type.  The probe fails on a record that is not a JSON object (null
\* excepted, which leaves the probe empty) or whose "type" is not a string.
decodeResource(b) ==
    IF b.json \notin {"object", "null"} \/ b.type.p = "bad"
    THEN decodeError("peek type")
    ELSE LET t == IF b.type.p = "ok" THEN b.type.s ELSE "" IN
         IF t \in KnownTypes THEN decodeKnown(b, t) ELSE decodeUnknown(b, t)

(***************************************************************************)
(* Wire messages: "/<kind>/<id>/<field> <value>"                           *)
(***************************************************************************)
WireMessage(kind, id, field, value) ==
    [path |-> <<kind, id, field>>, value |-> value]

\* a formatter that prints every state as "1"
fmtBit_alwaysOne(x) == [text |-> "1"]

\* fmt.Sprintf("%b", state) of the int 0 or 1
fmtBit(x) == [text |-> IF x = 1 THEN "1" ELSE "0"]

\* fmt.Sprintf("%.2f", t): t is given in thousandths (non-negative, no tie)
fmtFixed2(t) ==
    LET h == (t + 5) \div 10 IN [whole |-> h \div 100, frac |-> h % 100]

\* fmt.Sprintf("%f", x): six decimals; x is given in thousandths
fmtFloat(x) == [whole |-> x \div 1000, frac6 |-> (x % 1000) * 1000]

\* a dispatch that also sends a message for a light event with an on object
dispatch_lightOn(ev) ==
    IF ev.kind = "LightEvent" /\ ev.On.p = "ok"
    THEN <<[path |-> <<"light", ev.Owner.ID, "on">>, value |-> [text |-> "1"]]>>
    ELSE <<>>

\* the type switch of handle for one decoded event: the messages it hands
\* to udpClient.Send, in order
dispatch(ev) ==
    LET parent == ev.Owner IN
    CASE ev.kind = "ContactEvent" ->
           IF ev.ContactReport.p = "ok"
           THEN <<WireMessage("contact", parent.ID, "state",
                    fmtBit(IF ev.ContactReport.state = "contact" THEN 1 ELSE 0))>>
           ELSE <<>>
      [] ev.kind = "MotionEvent" ->
           IF ev.Motion.p = "ok" /\ ev.Motion.motion_report.p = "ok" /\ parent.ID # ""
           THEN <<WireMessage("sensor", parent.ID, "motion",
                    fmtBit(IF ev.Motion.motion_report.motion THEN 1 ELSE 0))>>
           ELSE <<>>
      [] ev.kind = "GroupedMotionEvent" ->
           IF /\ ev.Motion.p = "ok" /\ ev.Motion.motion_report.p = "ok"
              /\ parent.Type # "bridge_home"
           THEN <<WireMessage("group", parent.ID, "motion",
                    fmtBit(IF ev.Motion.motion_report.motion THEN 1 ELSE 0))>>
           ELSE <<>>
      [] ev.kind = "TemperatureEvent" ->
           IF ev.Temperature.p = "ok" /\ ev.Temperature.temperature_report.p = "ok"
           THEN <<WireMessage("sensor", parent.ID, "temperature",
                    fmtFixed2(ev.Temperature.temperature_report.temperature))>>
           ELSE <<>>
      [] ev.kind \in {"LightLevelEvent", "GroupedLightLevelEvent"} ->
           \* no case of decodeResource builds these two
           IF ev.Light.p = "ok" /\ ev.Light.motion_report.p = "ok"
           THEN <<WireMessage("sensor", parent.ID, "light_level",
                    fmtFloat(ev.Light.motion_report.motion))>>
           ELSE <<>>
      [] OTHER -> <<>>   \* light, tamper, grouped_light, zigbee, scene,
                         \* unknown, muted: logged only

\* the records of a frame in the order handle visits them
RECURSIVE recordsOf(_)
recordsOf(containers) ==
    IF containers = <<>> THEN <<>>
    ELSE Head(containers).data \o recordsOf(Tail(containers))

\* handle: decode and dispatch record after record; the first decode error
\* is returned at once.
RECURSIVE handleRecords(_)
handleRecords(recs) ==
    IF recs = <<>> THEN [msgs |-> <<>>, err |-> FALSE]
    ELSE LET ev == decodeResource(Head(recs)) IN
         IF ev.err THEN [msgs |-> <<>>, err |-> TRUE]
         ELSE LET rest == handleRecords(Tail(recs)) IN
              [msgs |-> dispatch(ev) \o rest.msgs, err |-> rest.err]

handle(containers) == handleRecords(recordsOf(containers))

\* Send as one step, for a caller with no concurrent producer: queue the
\* message, dropping the oldest when the queue is full
SendNow(q, b) ==
    IF chHasRoom(q) THEN Append(q, b)
    ELSE IF Len(q) > 0 /\ chHasRoom(chRecv(q).rest) THEN Append(chRecv(q).rest, b)
    ELSE q

RECURSIVE SendAll(_, _)
SendAll(q, msgs) ==
    IF msgs = <<>> THEN q ELSE SendAll(SendNow(q, Head(msgs)), Tail(msgs))

(***************************************************************************)
(* Inputs of the decoder: raw records                                      *)
(***************************************************************************)
ObjectRecord(t) ==
    [json |-> "object", type |-> t] @@ [k \in RecordKeys |-> IF k = "id" THEN [p |-> "ok"] ELSE Absent]

TypeTag(t) == [p |-> "ok", s |-> t]

\* discriminators the decoder has no case for
UnknownTypes == {"button", "device_power"}

OwnerValues ==
    { Absent, Bad,
      [p |-> "ok", rid |-> "a1", rtype |-> "device"],
      [p |-> "ok", rid |-> "h1", rtype |-> "bridge_home"] }

Report(name, v) == [p |-> "ok"] @@ (name :> v)

\* the payload of a record: one key and its value
PayloadValues ==
    { <<"on", Absent>> }
    \cup { <<"on", v>> : v \in {Bad, [p |-> "ok", on |-> TRUE]} }
    \cup { <<"contact_report", v>> :
             v \in {Bad, [p |-> "ok", state |-> "contact"],
                    [p |-> "ok", state |-> "no_contact"]} }
    \cup { <<"motion", v>> :
             v \in {Bad, Report("motion_report", Absent),
                    Report("motion_report", [p |-> "ok", motion |-> TRUE]),
                    Report("motion_report", [p |-> "ok", motion |-> FALSE])} }
    \cup { <<"temperature", v>> :
             v \in {Bad, Report("temperature_report", Absent),
                    Report("temperature_report", [p |-> "ok", temperature |-> 21504]),
                    Report("temperature_report", [p |-> "ok", temperature |-> 19000])} }
    \cup { <<"light", v>> :
             v \in {Bad, Report("light_level_report", [p |-> "ok", light_level |-> 12345000])} }
    \cup { <<"status", Bad>>, <<"dimming", Bad>>, <<"tamper_reports", Bad>> }

RawRecords ==
    { [[ObjectRecord(TypeTag(t)) EXCEPT !.owner = o] EXCEPT ![kv[1]] = kv[2]] :
        t \in KnownTypes \cup UnknownTypes, o \in OwnerValues, kv \in PayloadValues }
    \cup { [ObjectRecord(Absent) EXCEPT !.owner = o] : o \in OwnerValues }   \* no "type"
    \cup { ObjectRecord(Bad) }                             \* "type" is not a string
    \cup { [ObjectRecord(Absent) EXCEPT !.json = j, !.id = Absent] : j \in {"null", "number", "string"} }

\* the discriminator string of a record, when it has one
HasDiscriminator(b) == b.json = "object" /\ b.type.p = "ok"

(***************************************************************************)
(* Specification DecodeSpec: decodeResource and the dispatch of handle     *)
(* applied to every record of RawRecords, each on an empty queue.          *)
(***************************************************************************)
DecodeInit ==
    /\ NewClient
    /\ NewStreamer
    /\ dPc = "input"
    /\ dRec \in RawRecords
    /\ dEv = <<>>
    /\ dOut = <<>>
    /\ NoParse
    /\ NoBackoff
    /\ NoConn
    /\ NoServer

\* handle on a frame that holds the one record dRec
DecodeOne ==
    /\ dPc = "input"
    /\ LET ev == decodeResource(dRec)
           h == handle(<<[data |-> <<dRec>>]>>)
       IN /\ dEv' = ev
          /\ dOut' = h.msgs
          /\ ch' = SendAll(ch, h.msgs)
          /\ hErr' = IF h.err THEN "decode" ELSE "none"
    /\ dPc' = "done"
    /\ UNCHANGED <<dRec, runPc, sBackoff, sCtxDone, buf, hRecs, hOut, sFrameOk>>
    /\ UNCHANGED <<parseVars, backoffVars, connVars, serverVars>>
    /\ UNCHANGED <<chClosed, ctxDone, conn, remoteUDP, sendPc, sendMsg, drainPc,
                   msg, attempt, backoff, closePc, panicked>>
    /\ UNCHANGED <<calledLog, enqLog, deqLog, evicted, discarded, removed,
                   concurrent, writesOf, lateDequeue>>

DecodeNext == DecodeOne

DecodeSpec == DecodeInit /\ [][DecodeNext]_vars

(***************************************************************************)
(* Inputs of the stream: lines                                             *)
(***************************************************************************)
\* bound: data: lines accumulated in buf before a blank line arrives
MaxDataLines == 2

DeviceOwner == [p |-> "ok", rid |-> "a1", rtype |-> "device"]

\* a contact record that decodes and yields /contact/a1/state 1
rContact ==
    [ObjectRecord(TypeTag("contact")) EXCEPT
        !.owner = DeviceOwner, !.contact_report = [p |-> "ok", state |-> "contact"]]
\* a motion record that decodes and yields /sensor/a1/motion 0
rMotion ==
    [ObjectRecord(TypeTag("motion")) EXCEPT
        !.owner = DeviceOwner,
        !.motion = Report("motion_report", [p |-> "ok", motion |-> FALSE])]
\* a contact record whose contact_report is malformed: a decode error
rMalformed ==
    [ObjectRecord(TypeTag("contact")) EXCEPT !.owner = DeviceOwner, !.contact_report = Bad]
\* a record of a type the decoder does not know
rUnknown == [ObjectRecord(TypeTag("button")) EXCEPT !.owner = DeviceOwner]

Container(recs) == [tok |-> "container", data |-> recs]
TokOpen == [tok |-> "["]
TokClose == [tok |-> "]"]
TokJunk == [tok |-> "junk"]

\* the frames the bridge sends in the model, each a JSON array of containers
StreamFrames ==
    { <<Container(<<rContact>>)>>,
      <<Container(<<rMotion, rContact>>)>>,
      <<Container(<<rContact, rMalformed, rMotion>>)>>,
      <<Container(<<rMalformed>>)>>,
      <<Container(<<rUnknown, rMotion>>)>>,
      <<Container(<<rContact>>), Container(<<rMalformed>>), Container(<<rMotion>>)>>,
      <<>> }

\* the payloads of data: lines: a whole frame on one line, a frame split
\* over two lines, and a line that is no JSON
DataPayloads ==
    { <<TokOpen>> \o f \o <<TokClose>> : f \in StreamFrames }
    \cup { <<TokOpen, Container(<<rUnknown>>)>>, <<Container(<<rContact>>), TokClose>> }
    \cup { <<TokJunk>> }

Lines ==
    { [kind |-> "blank"], [kind |-> "other"] }
    \cup { [kind |-> "data", payload |-> pl] : pl \in DataPayloads }

\* the bytes of buf: the payloads joined by "\n" (JSON whitespace)
RECURSIVE joined(_)
joined(b) == IF b = <<>> THEN <<>> ELSE Head(b) \o joined(Tail(b))

\* json.Unmarshal(buf, &containers): buf must be one JSON array of containers
unmarshalContainers(b) ==
    LET toks == joined(b)
        n == Len(toks)
    IN  IF /\ n >= 2
           /\ toks[1] = TokOpen
           /\ toks[n] = TokClose
           /\ \A i \in 2..(n - 1) : toks[i].tok = "container"
        THEN [ok |-> TRUE, containers |-> SubSeq(toks, 2, n - 1)]
        ELSE [ok |-> FALSE, containers |-> <<>>]

(***************************************************************************)
(* EventStreamer.Run and streamOnce                                        *)
(***************************************************************************)
backoffMax == 30

\* a Run that keeps its backoff after a clean return of streamOnce
RunAfterStream_noReset(failed) ==
    IF sCtxDone THEN runPc' = "returned" /\ UNCHANGED sBackoff
    ELSE IF ~failed THEN runPc' = "top" /\ UNCHANGED sBackoff
    ELSE runPc' = "sleep" /\ UNCHANGED sBackoff

\* Run, after streamOnce has returned: a cancelled context returns; a nil
\* error resets the backoff and loops; any other error goes to sleep.
RunAfterStream(failed) ==
    IF sCtxDone THEN runPc' = "returned" /\ UNCHANGED sBackoff
    ELSE IF ~failed THEN runPc' = "top" /\ sBackoff' = 1
    ELSE runPc' = "sleep" /\ UNCHANGED sBackoff

\* the relay sender apart from its queue (its history variables belong to
\* the specification Spec and are not kept here)
udpUntouched ==
    /\ UNCHANGED <<chClosed, ctxDone, conn, remoteUDP, sendPc, sendMsg, drainPc,
                   msg, attempt, backoff, closePc, panicked>>
    /\ UNCHANGED <<calledLog, enqLog, deqLog, evicted, discarded, removed,
                   concurrent, writesOf, lateDequeue>>

\* a loop top that calls streamOnce without looking at the context
Run_top_noCtxCheck ==
    /\ runPc = "top"
    /\ runPc' = "connect"
    /\ UNCHANGED <<sBackoff, sCtxDone, buf, hRecs, hOut, hErr, sFrameOk>>
    /\ UNCHANGED <<ch, decodeVars, parseVars, backoffVars, connVars, serverVars>>
    /\ udpUntouched

\* the top of Run's loop: if ctx.Err() != nil return, else call streamOnce
Run_top ==
    /\ runPc = "top"
    /\ runPc' = IF sCtxDone THEN "returned" ELSE "connect"
    /\ UNCHANGED <<sBackoff, sCtxDone, buf, hRecs, hOut, hErr, sFrameOk>>
    /\ UNCHANGED <<ch, decodeVars, parseVars, backoffVars, connVars, serverVars>>
    /\ udpUntouched

\* streamOnce up to the read loop: the request and the status check.  With
\* a cancelled context the request fails.
ConnectResults == {"ok", "connect error", "unexpected status"}

streamOnce_connect(res) ==
    /\ runPc = "connect"
    /\ sCtxDone => res = "connect error"
    /\ hRecs' = <<>>
    /\ hOut' = <<>>
    /\ buf' = <<>>
    /\ sFrameOk' = FALSE
    /\ IF res = "ok"
       THEN /\ runPc' = "reading"
            /\ hErr' = "none"
            /\ UNCHANGED sBackoff
       ELSE /\ hErr' = res
            /\ RunAfterStream(TRUE)
    /\ UNCHANGED <<sCtxDone, ch, decodeVars, parseVars, backoffVars, connVars, serverVars>>
    /\ udpUntouched

\* a buffer that keeps only the last data: line
appendData_lastOnly(b, payload) == <<payload>>

\* a data: line: its payload is appended to buf (after a "\n" when buf is
\* not empty)
appendData(b, payload) == Append(b, payload)

\* a read loop that returns an error on a payload that is no JSON array
streamOnce_line_badJsonReturns(line) ==
    /\ runPc = "reading"
    /\ IF line.kind = "blank" /\ buf # <<>>
       THEN LET parsed == unmarshalContainers(buf) IN
            /\ buf' = <<>>
            /\ IF ~parsed.ok
               THEN /\ hErr' = "bad JSON"
                    /\ hRecs' = <<>>
                    /\ hOut' = <<>>
                    /\ RunAfterStream(TRUE)
                    /\ UNCHANGED <<ch, sFrameOk>>
               ELSE LET h == handle(parsed.containers) IN
                    /\ hRecs' = recordsOf(parsed.containers)
                    /\ hOut' = h.msgs
                    /\ ch' = SendAll(ch, h.msgs)
                    /\ IF h.err
                       THEN /\ hErr' = "decode"
                            /\ RunAfterStream(TRUE)
                            /\ UNCHANGED sFrameOk
                       ELSE /\ hErr' = "none"
                            /\ sFrameOk' = TRUE
                            /\ UNCHANGED <<runPc, sBackoff>>
       ELSE /\ IF line.kind = "data"
               THEN /\ Len(buf) < MaxDataLines
                    /\ buf' = appendData(buf, line.payload)
               ELSE UNCHANGED buf
            /\ hRecs' = <<>>
            /\ hOut' = <<>>
            /\ hErr' = "none"
            /\ UNCHANGED <<runPc, sBackoff, ch, sFrameOk>>
    /\ UNCHANGED <<sCtxDone, decodeVars, parseVars, backoffVars, connVars, serverVars>>
    /\ udpUntouched

\* one pass of the read loop: scanner.Scan() delivers a line
streamOnce_line(line) ==
    /\ runPc = "reading"
    /\ IF line.kind = "blank" /\ buf # <<>>
       THEN LET parsed == unmarshalContainers(buf) IN
            /\ buf' = <<>>
            /\ IF ~parsed.ok
               THEN /\ hErr' = "bad JSON"
                    /\ hRecs' = <<>>
                    /\ hOut' = <<>>
                    /\ UNCHANGED <<runPc, sBackoff, ch, sFrameOk>>
               ELSE LET h == handle(parsed.containers) IN
                    /\ hRecs' = recordsOf(parsed.containers)
                    /\ hOut' = h.msgs
                    /\ ch' = SendAll(ch, h.msgs)
                    /\ IF h.err
                       THEN /\ hErr' = "decode"
                            /\ RunAfterStream(TRUE)
                            /\ UNCHANGED sFrameOk
                       ELSE /\ hErr' = "none"
                            /\ sFrameOk' = TRUE
                            /\ UNCHANGED <<runPc, sBackoff>>
       ELSE /\ IF line.kind = "data"
               THEN /\ Len(buf) < MaxDataLines
                    /\ buf' = appendData(buf, line.payload)
               ELSE UNCHANGED buf
            /\ hRecs' = <<>>
            /\ hOut' = <<>>
            /\ hErr' = "none"
            /\ UNCHANGED <<runPc, sBackoff, ch, sFrameOk>>
    /\ UNCHANGED <<sCtxDone, decodeVars, parseVars, backoffVars, connVars, serverVars>>
    /\ udpUntouched

\* scanner.Scan() returns false: end of stream (scanner.Err() is nil) or a
\* read error; a cancelled context ends the read with an error
streamOnce_end(failed) ==
    /\ runPc = "reading"
    /\ sCtxDone => failed
    /\ hErr' = IF failed THEN "read error" ELSE "none"
    /\ hRecs' = <<>>
    /\ hOut' = <<>>
    /\ buf' = <<>>
    /\ RunAfterStream(failed)
    /\ UNCHANGED <<sCtxDone, sFrameOk, ch, decodeVars, parseVars, backoffVars, connVars, serverVars>>
    /\ udpUntouched

\* a Run that returns once the backoff has reached backoffMax
Run_sleepDone_givesUp ==
    /\ runPc = "sleep"
    /\ runPc' = IF sBackoff < backoffMax THEN "top" ELSE "returned"
    /\ sBackoff' = IF sBackoff < backoffMax THEN Min(sBackoff * 2, backoffMax)
                                            ELSE sBackoff
    /\ UNCHANGED <<sCtxDone, buf, hRecs, hOut, hErr, sFrameOk>>
    /\ UNCHANGED <<ch, decodeVars, parseVars, backoffVars, connVars, serverVars>>
    /\ udpUntouched

\* a Run whose backoff is capped only at twice backoffMax
Run_sleepDone_lateCap ==
    /\ runPc = "sleep"
    /\ runPc' = "top"
    /\ sBackoff' = Min(sBackoff * 2, 2 * backoffMax)
    /\ UNCHANGED <<sCtxDone, buf, hRecs, hOut, hErr, sFrameOk>>
    /\ UNCHANGED <<ch, decodeVars, parseVars, backoffVars, connVars, serverVars>>
    /\ udpUntouched

\* sleepContext(ctx, backoff): the timer fires; then the backoff doubles up
\* to backoffMax
Run_sleepDone ==
    /\ runPc = "sleep"
    /\ runPc' = "top"
    /\ sBackoff' = IF sBackoff < backoffMax THEN Min(sBackoff * 2, backoffMax)
                                            ELSE sBackoff
    /\ UNCHANGED <<sCtxDone, buf, hRecs, hOut, hErr, sFrameOk>>
    /\ UNCHANGED <<ch, decodeVars, parseVars, backoffVars, connVars, serverVars>>
    /\ udpUntouched

\* sleepContext(ctx, backoff): the context is cancelled first
Run_sleepCancelled ==
    /\ runPc = "sleep"
    /\ sCtxDone
    /\ runPc' = "returned"
    /\ UNCHANGED <<sBackoff, sCtxDone, buf, hRecs, hOut, hErr, sFrameOk>>
    /\ UNCHANGED <<ch, decodeVars, parseVars, backoffVars, connVars, serverVars>>
    /\ udpUntouched

\* the context handed to Run is cancelled
StreamCancel ==
    /\ ~sCtxDone
    /\ runPc # "returned"
    /\ sCtxDone' = TRUE
    /\ UNCHANGED <<runPc, sBackoff, buf, hRecs, hOut, hErr, sFrameOk>>
    /\ UNCHANGED <<ch, decodeVars, parseVars, backoffVars, connVars, serverVars>>
    /\ udpUntouched

StreamInit ==
    NewClient /\ NewStreamer /\ NoDecode /\ NoParse /\ NoBackoff /\ NoConn /\ NoServer

StreamNext ==
    \/ Run_top
    \/ \E res \in ConnectResults : streamOnce_connect(res)
    \/ \E line \in Lines : streamOnce_line(line)
    \/ \E failed \in BOOLEAN : streamOnce_end(failed)
    \/ Run_sleepDone
    \/ Run_sleepCancelled
    \/ StreamCancel

StreamSpec == StreamInit /\ [][StreamNext]_vars

\* Run's goroutine keeps running: a timer that was started fires, and the
\* loop test at the top of Run is executed.
StreamFairSpec ==
    StreamSpec /\ WF_vars(Run_sleepDone) /\ WF_vars(Run_top)

(***************************************************************************)
(* udp.Server: parseCommand.  A Go string is a sequence of one-character   *)
(* strings.                                                                *)
(***************************************************************************)
sGroupedLight == <<"g", "r", "o", "u", "p", "e", "d", "_", "l", "i", "g", "h", "t">>
sOn == <<"o", "n">>
sDimmable == <<"d", "i", "m", "m", "a", "b", "l", "e">>
sTrue == <<"t", "r", "u", "e">>
sFalse == <<"f", "a", "l", "s", "e">>

\* unicode.IsSpace, for the characters of the model's lines
Whitespace == {" ", "\t", "\n", "\r"}

\* strings.Fields: the maximal runs of non-space characters
RECURSIVE FieldsAcc(_, _, _)
FieldsAcc(s, cur, acc) ==
    IF s = <<>> THEN (IF cur = <<>> THEN acc ELSE Append(acc, cur))
    ELSE IF Head(s) \in Whitespace
         THEN FieldsAcc(Tail(s), <<>>, IF cur = <<>> THEN acc ELSE Append(acc, cur))
         ELSE FieldsAcc(Tail(s), Append(cur, Head(s)), acc)

\* strings.Split(s, sep) for a one-character sep: empty pieces are kept
RECURSIVE SplitAcc(_, _, _, _)
SplitAcc(s, sep, cur, acc) ==
    IF s = <<>> THEN Append(acc, cur)
    ELSE IF Head(s) = sep
         THEN SplitAcc(Tail(s), sep, <<>>, Append(acc, cur))
         ELSE SplitAcc(Tail(s), sep, Append(cur, Head(s)), acc)

Split(s, sep) == SplitAcc(s, sep, <<>>, <<>>)

\* a splitter that cuts at every single space and keeps the empty pieces
Fields_splitOnSpace(s) == Split(s, " ")

Fields(s) == FieldsAcc(s, <<>>, <<>>)

\* strings.Trim(s, cutset)
RECURSIVE TrimLeft(_, _)
TrimLeft(s, cutset) ==
    IF s # <<>> /\ Head(s) \in cutset THEN TrimLeft(Tail(s), cutset) ELSE s

RECURSIVE TrimRight(_, _)
TrimRight(s, cutset) ==
    IF s # <<>> /\ s[Len(s)] \in cutset
    THEN TrimRight(SubSeq(s, 1, Len(s) - 1), cutset) ELSE s

Trim(s, cutset) == TrimRight(TrimLeft(s, cutset), cutset)

\* strings.ToLower, for the letters of the model's values
ToLowerChar(c) ==
    CASE c = "T" -> "t" [] c = "R" -> "r" [] c = "U" -> "u" [] c = "E" -> "e"
      [] c = "F" -> "f" [] c = "A" -> "a" [] c = "L" -> "l" [] c = "S" -> "s"
      [] OTHER -> c

ToLower(s) == [i \in 1..Len(s) |-> ToLowerChar(s[i])]

\* strconv.Atoi: an optional sign, then one or more decimal digits
DigitChars == <<"0", "1", "2", "3", "4", "5", "6", "7", "8", "9">>

IsDigit(c) == \E i \in 1..10 : DigitChars[i] = c

DigitVal(c) == (CHOOSE i \in 1..10 : DigitChars[i] = c) - 1

RECURSIVE DigitsVal(_, _)
DigitsVal(s, acc) ==
    IF s = <<>> THEN acc ELSE DigitsVal(Tail(s), acc * 10 + DigitVal(Head(s)))

Atoi(s) ==
    LET signed == s # <<>> /\ Head(s) \in {"+", "-"}
        body == IF signed THEN Tail(s) ELSE s
        ok == body # <<>> /\ \A i \in 1..Len(body) : IsDigit(body[i])
    IN  IF ~ok THEN [err |-> TRUE, n |-> 0]
        ELSE [err |-> FALSE,
              n |-> IF Head(s) = "-" THEN 0 - DigitsVal(body, 0) ELSE DigitsVal(body, 0)]

\* a range check that leaves out both ends
dimmableInRange_exclusive(n) == n > 0 /\ n < 100

\* n < 0 || n > 100 is an error
dimmableInRange(n) == n >= 0 /\ n <= 100

\* Command{} and an error; arg is the text the message quotes
ParseError(why, arg) ==
    [err |-> why, arg |-> arg,
     cmd |-> [Domain |-> <<>>, ID |-> <<>>, Action |-> <<>>, Value |-> <<>>]]

ParseOk(cmd) == [err |-> "none", arg |-> <<>>, cmd |-> cmd]

parseCommand(line) ==
    LET parts == Fields(line) IN
    IF Len(parts) < 2 THEN ParseError("expected '<path> <value>'", <<>>)
    ELSE
    LET path == parts[1]
        value == parts[2]
        segs == Split(Trim(path, {" ", "\t", "\r", "\n"}), "/")
    IN
    IF Len(segs) < 4 \/ segs[1] # <<>> THEN ParseError("bad path", path)
    ELSE
    LET cmd == [Domain |-> segs[2], ID |-> segs[3], Action |-> segs[4],
                Value |-> value]
    IN
    IF cmd.Domain # sGroupedLight THEN ParseError("unsupported domain", cmd.Domain)
    ELSE IF cmd.Action = sOn
    THEN IF ToLower(cmd.Value) \notin {sTrue, sFalse, <<"1">>, <<"0">>}
         THEN ParseError("on expects true|false|1|0", <<>>)
         ELSE ParseOk(cmd)
    ELSE IF cmd.Action = sDimmable
    THEN LET a == Atoi(cmd.Value) IN
         IF a.err \/ ~dimmableInRange(a.n)
         THEN ParseError("dimmable expects 0..100", <<>>)
         ELSE ParseOk(cmd)
    ELSE ParseError("unsupported action", cmd.Action)

(***************************************************************************)
(* Inputs of parseCommand: lines                                           *)
(***************************************************************************)
sId == <<"a", "b", "c", "-", "1", "2", "3">>
sSensor == <<"s", "e", "n", "s", "o", "r">>
sBlink == <<"b", "l", "i", "n", "k">>

\* "/seg1/seg2/..." for segs = <<seg1, seg2, ...>>
RECURSIVE Slashed(_)
Slashed(segs) ==
    IF segs = <<>> THEN <<>> ELSE <<"/">> \o Head(segs) \o Slashed(Tail(segs))

PathTexts ==
    { Slashed(<<sGroupedLight, sId, a>>) : a \in {sOn, sDimmable, sBlink} }
    \cup { Slashed(<<sSensor, sId, sOn>>),
           Slashed(<<sGroupedLight, sOn>>),             \* too few segments
           Slashed(<<sGroupedLight, <<>>, sOn>>),       \* empty id
           Slashed(<<sGroupedLight, sId, sOn, sBlink>>),
           Tail(Slashed(<<sGroupedLight, sId, sOn>>)) } \* no leading slash

ValueTexts ==
    { sTrue, sFalse, <<"1">>, <<"0">>, <<"T", "R", "U", "E">>, <<"F", "a", "l", "s", "e">>,
      <<"m", "a", "y", "b", "e">>, <<"5", "0">>, <<"1", "0", "0">>, <<"1", "0", "1">>,
      <<"-", "1">>, <<"+", "5">>, <<"h", "i", "g", "h">>, <<"7", "5">> }

\* whitespace around the line and between its fields
Pads == { <<>>, <<" ">>, <<" ", " ", " ">>, <<"\t">> }
Gaps == { <<" ">>, <<" ", " ", " ">>, <<"\t">>, <<" ", "\t">> }

ParseLines ==
    { lead \o path \o gap \o value \o trail :
        lead \in Pads, path \in PathTexts, gap \in Gaps, value \in ValueTexts,
        trail \in Pads }
    \cup { lead \o path \o trail : lead \in Pads, path \in PathTexts, trail \in Pads }
    \cup { path \o gap \o sTrue \o gap \o sBlink :
             path \in PathTexts, gap \in Gaps }          \* a third field
    \cup Pads

(***************************************************************************)
(* Specification ParseSpec: parseCommand applied to every line of          *)
(* ParseLines.                                                             *)
(***************************************************************************)
ParseInit ==
    /\ NewClient
    /\ NewStreamer
    /\ NoDecode
    /\ pPc = "input"
    /\ pLine \in ParseLines
    /\ pRes = <<>>
    /\ NoBackoff
    /\ NoConn
    /\ NoServer

ParseOne ==
    /\ pPc = "input"
    /\ pRes' = parseCommand(pLine)
    /\ pPc' = "done"
    /\ UNCHANGED pLine
    /\ UNCHANGED <<udpVars, udpHist, streamVars, decodeVars, backoffVars, connVars, serverVars>>

ParseNext == ParseOne

ParseSpec == ParseInit /\ [][ParseNext]_vars

(***************************************************************************)
(* Specification BackoffSpec: the backoff of runSender's send loop under   *)
(* every configuration with 1 <= BaseBackoff <= MaxBackoff within the      *)
(* bounds: write failures that are retryable, failed reconnects before a   *)
(* message, and successful writes.                                         *)
(***************************************************************************)
CfgBaseMax == 3     \* bound: largest BaseBackoff
CfgCapMax == 10     \* bound: largest MaxBackoff
MaxFailures == 3    \* bound: write failures in a row

BackoffInit ==
    /\ NewClient
    /\ NewStreamer
    /\ NoDecode
    /\ NoParse
    /\ bPc = "loop"
    /\ bBase \in 1..CfgBaseMax
    /\ bMax \in bBase..CfgCapMax
    /\ bCur = bBase          \* backoff := c.cfg.BaseBackoff
    /\ bSlept = <<>>
    /\ NoConn
    /\ NoServer

\* the reconnect before the send loop fails: backoff = nextBackoff(backoff)
Backoff_reconnectFails(pct) ==
    /\ bPc \in {"loop", "sent"}
    /\ bSlept = <<>> \/ bPc = "sent"
    /\ bCur' = nextBackoffOf(bBase, bMax, bCur, pct)
    /\ bSlept' = <<>>
    /\ bPc' = "loop"
    /\ UNCHANGED <<bBase, bMax>>
    /\ UNCHANGED <<udpVars, udpHist, streamVars, decodeVars, parseVars, connVars, serverVars>>

\* the reconnect before the send loop succeeds: backoff = c.cfg.BaseBackoff
Backoff_reconnectOk ==
    /\ bPc \in {"loop", "sent"}
    /\ bSlept = <<>> \/ bPc = "sent"
    /\ bCur' = bBase
    /\ bSlept' = <<>>
    /\ bPc' = "loop"
    /\ UNCHANGED <<bBase, bMax>>
    /\ UNCHANGED <<udpVars, udpHist, streamVars, decodeVars, parseVars, connVars, serverVars>>

\* a retryable write failure: c.sleep(backoff), then
\* backoff = nextBackoff(backoff)
Backoff_writeFails(pct) ==
    /\ bPc \in {"loop", "sent"}
    /\ LET before == IF bPc = "sent" THEN <<>> ELSE bSlept IN
       /\ Len(before) < MaxFailures
       /\ bSlept' = Append(before, bCur)
    /\ bCur' = nextBackoffOf(bBase, bMax, bCur, pct)
    /\ bPc' = "loop"
    /\ UNCHANGED <<bBase, bMax>>
    /\ UNCHANGED <<udpVars, udpHist, streamVars, decodeVars, parseVars, connVars, serverVars>>

\* a write succeeds: backoff = c.cfg.BaseBackoff
Backoff_writeOk ==
    /\ bPc = "loop"
    /\ bCur' = bBase
    /\ bPc' = "sent"
    /\ UNCHANGED <<bBase, bMax, bSlept>>
    /\ UNCHANGED <<udpVars, udpHist, streamVars, decodeVars, parseVars, connVars, serverVars>>

BackoffNext ==
    \/ \E pct \in JitterPct : Backoff_reconnectFails(pct)
    \/ Backoff_reconnectOk
    \/ \E pct \in JitterPct : Backoff_writeFails(pct)
    \/ Backoff_writeOk

BackoffSpec == BackoffInit /\ [][BackoffNext]_vars

(***************************************************************************)
(* Specification ConnSpec: the client's address resolution, its socket     *)
(* and its lock, one action per statement that touches them: NewClient's   *)
(* resolveAndDial, then the calls runSender makes (reconnect, write,       *)
(* isConnReady) with time passing between them, then Close.                *)
(***************************************************************************)
MaxTime == 3        \* bound: the clock stops here
MaxInterval == 2    \* bound: largest ResolveInterval
MaxDials == 3       \* bound: sockets created
MaxResolves == 4    \* bound: calls of net.ResolveUDPAddr

ConnInit ==
    /\ NewClient
    /\ NewStreamer
    /\ NoDecode
    /\ NoParse
    /\ NoBackoff
    /\ NoServer
    /\ kPc = "resolve"           \* NewClient calls resolveAndDial
    /\ kPhase = "new"
    /\ kRet = "rc_check"         \* resolveAndDial: resolve, then reconnect(0)
    /\ kNow = 0
    /\ kInterval \in 0..MaxInterval
    /\ kLastResolve = -1
    /\ kRemote = "nil"
    /\ kConn = 0
    /\ kLock = "free"
    /\ kLocal = 0
    /\ kSockets = {}
    /\ kDials = 0
    /\ kResolveLog = <<>>

\* reconnect has returned (to NewClient, which then returns, or to runSender)
ConnReturned ==
    /\ kPc' = "idle"
    /\ kPhase' = "run"

\* resolve: net.ResolveUDPAddr("udp", c.cfg.Remote); an error is returned
Conn_resolve(ok) ==
    /\ kPc = "resolve"
    /\ Len(kResolveLog) < MaxResolves
    /\ kResolveLog' = Append(kResolveLog, kNow)
    /\ IF ok THEN kPc' = "rv_lock" /\ UNCHANGED kPhase
             ELSE ConnReturned
    /\ UNCHANGED <<kRet, kNow, kInterval, kLastResolve, kRemote, kConn, kLock, kLocal, kSockets, kDials>>
    /\ UNCHANGED <<udpVars, udpHist, streamVars, decodeVars, parseVars, backoffVars,
                   serverVars>>

\* resolve: c.mu.Lock()
Conn_resolveLock ==
    /\ kPc = "rv_lock"
    /\ kLock = "free"
    /\ kLock' = "held"
    /\ kPc' = "rv_store"
    /\ UNCHANGED <<kPhase, kRet, kNow, kInterval, kLastResolve, kRemote, kConn, kLocal, kSockets, kDials, kResolveLog>>
    /\ UNCHANGED <<udpVars, udpHist, streamVars, decodeVars, parseVars, backoffVars,
                   serverVars>>

\* resolve: c.remoteUDP = addr
Conn_resolveStore ==
    /\ kPc = "rv_store"
    /\ kRemote' = "addr"
    /\ kPc' = "rv_unlock"
    /\ UNCHANGED <<kPhase, kRet, kNow, kInterval, kLastResolve, kConn, kLock, kLocal, kSockets, kDials, kResolveLog>>
    /\ UNCHANGED <<udpVars, udpHist, streamVars, decodeVars, parseVars, backoffVars,
                   serverVars>>

\* resolve: c.mu.Unlock(); return nil
Conn_resolveUnlock ==
    /\ kPc = "rv_unlock"
    /\ kLock' = "free"
    /\ kPc' = kRet
    /\ UNCHANGED <<kPhase, kRet, kNow, kInterval, kLastResolve, kRemote, kConn, kLocal, kSockets, kDials, kResolveLog>>
    /\ UNCHANGED <<udpVars, udpHist, streamVars, decodeVars, parseVars, backoffVars,
                   serverVars>>

\* reconnect: if ResolveInterval == 0 || time.Since(c.lastResolve) >= ResolveInterval
\* (time.Since of the zero time is the largest duration)
Conn_checkInterval ==
    /\ kPc = "rc_check"
    /\ IF \/ kInterval = 0
          \/ kLastResolve = -1
          \/ kNow - kLastResolve >= kInterval
       THEN kPc' = "resolve" /\ kRet' = "rc_stamp"
       ELSE kPc' = "rc_lock" /\ UNCHANGED kRet
    /\ UNCHANGED <<kPhase, kNow, kInterval, kLastResolve, kRemote, kConn, kLock, kLocal, kSockets, kDials, kResolveLog>>
    /\ UNCHANGED <<udpVars, udpHist, streamVars, decodeVars, parseVars, backoffVars,
                   serverVars>>

\* reconnect: c.lastResolve = time.Now()
Conn_stamp ==
    /\ kPc = "rc_stamp"
    /\ kLastResolve' = kNow
    /\ kPc' = "rc_lock"
    /\ UNCHANGED <<kPhase, kRet, kNow, kInterval, kRemote, kConn, kLock, kLocal, kSockets, kDials, kResolveLog>>
    /\ UNCHANGED <<udpVars, udpHist, streamVars, decodeVars, parseVars, backoffVars,
                   serverVars>>

\* reconnect: c.mu.Lock() before the old connection is closed
Conn_lockOld ==
    /\ kPc = "rc_lock"
    /\ kLock = "free"
    /\ kLock' = "held"
    /\ kPc' = "rc_close"
    /\ UNCHANGED <<kPhase, kRet, kNow, kInterval, kLastResolve, kRemote, kConn, kLocal, kSockets, kDials, kResolveLog>>
    /\ UNCHANGED <<udpVars, udpHist, streamVars, decodeVars, parseVars, backoffVars,
                   serverVars>>

\* a reconnect that forgets the old connection without closing it
Conn_closeOld_leak ==
    /\ kPc = "rc_close"
    /\ kConn' = 0
    /\ kLocal' = kRemote
    /\ kPc' = "rc_unlock"
    /\ UNCHANGED <<kPhase, kRet, kNow, kInterval, kLastResolve, kRemote, kLock, kSockets, kDials, kResolveLog>>
    /\ UNCHANGED <<udpVars, udpHist, streamVars, decodeVars, parseVars, backoffVars,
                   serverVars>>

\* reconnect: if c.conn != nil { c.conn.Close(); c.conn = nil }; remote := c.remoteUDP
Conn_closeOld ==
    /\ kPc = "rc_close"
    /\ kSockets' = kSockets \ {kConn}
    /\ kConn' = 0
    /\ kLocal' = kRemote
    /\ kPc' = "rc_unlock"
    /\ UNCHANGED <<kPhase, kRet, kNow, kInterval, kLastResolve, kRemote, kLock, kDials, kResolveLog>>
    /\ UNCHANGED <<udpVars, udpHist, streamVars, decodeVars, parseVars, backoffVars,
                   serverVars>>

\* reconnect: c.mu.Unlock()
Conn_unlockOld ==
    /\ kPc = "rc_unlock"
    /\ kLock' = "free"
    /\ kPc' = "rc_dial"
    /\ UNCHANGED <<kPhase, kRet, kNow, kInterval, kLastResolve, kRemote, kConn, kLocal, kSockets, kDials, kResolveLog>>
    /\ UNCHANGED <<udpVars, udpHist, streamVars, decodeVars, parseVars, backoffVars,
                   serverVars>>

\* reconnect: net.DialUDP("udp", nil, remote); an error is returned
Conn_dial(ok) ==
    /\ kPc = "rc_dial"
    /\ ok => (kLocal = "addr" /\ kDials < MaxDials)
    /\ IF ok
       THEN /\ kDials' = kDials + 1
            /\ kSockets' = kSockets \cup {kDials + 1}
            /\ kLocal' = kDials + 1
            /\ kPc' = "rc_lock2"
            /\ UNCHANGED kPhase
       ELSE /\ ConnReturned
            /\ kLocal' = 0
            /\ UNCHANGED <<kDials, kSockets>>
    /\ UNCHANGED <<kRet, kNow, kInterval, kLastResolve, kRemote, kConn, kLock, kResolveLog>>
    /\ UNCHANGED <<udpVars, udpHist, streamVars, decodeVars, parseVars, backoffVars,
                   serverVars>>

\* reconnect: c.mu.Lock() before the new connection is stored
Conn_lockNew ==
    /\ kPc = "rc_lock2"
    /\ kLock = "free"
    /\ kLock' = "held"
    /\ kPc' = "rc_store"
    /\ UNCHANGED <<kPhase, kRet, kNow, kInterval, kLastResolve, kRemote, kConn, kLocal, kSockets, kDials, kResolveLog>>
    /\ UNCHANGED <<udpVars, udpHist, streamVars, decodeVars, parseVars, backoffVars,
                   serverVars>>

\* reconnect: c.conn = conn
Conn_storeNew ==
    /\ kPc = "rc_store"
    /\ kConn' = kLocal
    /\ kPc' = "rc_unlock2"
    /\ UNCHANGED <<kPhase, kRet, kNow, kInterval, kLastResolve, kRemote, kLock, kLocal, kSockets, kDials, kResolveLog>>
    /\ UNCHANGED <<udpVars, udpHist, streamVars, decodeVars, parseVars, backoffVars,
                   serverVars>>

\* reconnect: c.mu.Unlock(); return nil
Conn_unlockNew ==
    /\ kPc = "rc_unlock2"
    /\ kLock' = "free"
    /\ kLocal' = 0
    /\ ConnReturned
    /\ UNCHANGED <<kRet, kNow, kInterval, kLastResolve, kRemote, kConn, kSockets, kDials, kResolveLog>>
    /\ UNCHANGED <<udpVars, udpHist, streamVars, decodeVars, parseVars, backoffVars,
                   serverVars>>

\* time passes while runSender waits for a message or sleeps
Conn_tick ==
    /\ kPc = "idle"
    /\ kNow < MaxTime
    /\ kNow' = kNow + 1
    /\ UNCHANGED <<kPc, kPhase, kRet, kInterval, kLastResolve, kRemote, kConn, kLock, kLocal, kSockets, kDials, kResolveLog>>
    /\ UNCHANGED <<udpVars, udpHist, streamVars, decodeVars, parseVars, backoffVars,
                   serverVars>>

\* runSender calls c.reconnect(backoff)
Conn_reconnect ==
    /\ kPc = "idle"
    /\ kPc' = "rc_check"
    /\ UNCHANGED <<kPhase, kRet, kNow, kInterval, kLastResolve, kRemote, kConn, kLock, kLocal, kSockets, kDials, kResolveLog>>
    /\ UNCHANGED <<udpVars, udpHist, streamVars, decodeVars, parseVars, backoffVars,
                   serverVars>>

\* write and isConnReady: c.mu.RLock()
Conn_readLock(next) ==
    /\ kPc = "idle"
    /\ kLock = "free"
    /\ kLock' = "held"
    /\ kPc' = next
    /\ UNCHANGED <<kPhase, kRet, kNow, kInterval, kLastResolve, kRemote, kConn, kLocal, kSockets, kDials, kResolveLog>>
    /\ UNCHANGED <<udpVars, udpHist, streamVars, decodeVars, parseVars, backoffVars,
                   serverVars>>

\* isConnReady: return c.conn != nil && c.remoteUDP != nil; the deferred
\* RUnlock runs after the read
Conn_isConnReady ==
    /\ kPc = "ir_read"
    /\ kLock' = "free"
    /\ kPc' = "idle"
    /\ UNCHANGED <<kPhase, kRet, kNow, kInterval, kLastResolve, kRemote, kConn, kLocal, kSockets, kDials, kResolveLog>>
    /\ UNCHANGED <<udpVars, udpHist, streamVars, decodeVars, parseVars, backoffVars,
                   serverVars>>

\* write: conn := c.conn
Conn_writeRead ==
    /\ kPc = "wr_read"
    /\ kLocal' = kConn
    /\ kPc' = "wr_unlock"
    /\ UNCHANGED <<kPhase, kRet, kNow, kInterval, kLastResolve, kRemote, kConn, kLock, kSockets, kDials, kResolveLog>>
    /\ UNCHANGED <<udpVars, udpHist, streamVars, decodeVars, parseVars, backoffVars,
                   serverVars>>

\* write: c.mu.RUnlock()
Conn_writeUnlock ==
    /\ kPc = "wr_unlock"
    /\ kLock' = "free"
    /\ kPc' = "wr_write"
    /\ UNCHANGED <<kPhase, kRet, kNow, kInterval, kLastResolve, kRemote, kConn, kLocal, kSockets, kDials, kResolveLog>>
    /\ UNCHANGED <<udpVars, udpHist, streamVars, decodeVars, parseVars, backoffVars,
                   serverVars>>

\* write: a nil conn is an error; else conn.Write(b) on the local conn
Conn_writeSocket ==
    /\ kPc = "wr_write"
    /\ kLocal' = 0
    /\ kPc' = "idle"
    /\ UNCHANGED <<kPhase, kRet, kNow, kInterval, kLastResolve, kRemote, kConn, kLock, kSockets, kDials, kResolveLog>>
    /\ UNCHANGED <<udpVars, udpHist, streamVars, decodeVars, parseVars, backoffVars,
                   serverVars>>

\* Close, after c.wg.Wait(): c.mu.Lock()
Conn_closeLock ==
    /\ kPc = "idle"
    /\ kLock = "free"
    /\ kLock' = "held"
    /\ kPc' = "cl_close"
    /\ UNCHANGED <<kPhase, kRet, kNow, kInterval, kLastResolve, kRemote, kConn, kLocal, kSockets, kDials, kResolveLog>>
    /\ UNCHANGED <<udpVars, udpHist, streamVars, decodeVars, parseVars, backoffVars,
                   serverVars>>

\* Close: if c.conn != nil { c.conn.Close(); c.conn = nil }; the deferred Unlock
Conn_closeConn ==
    /\ kPc = "cl_close"
    /\ kSockets' = kSockets \ {kConn}
    /\ kConn' = 0
    /\ kLock' = "free"
    /\ kPc' = "closed"
    /\ UNCHANGED <<kPhase, kRet, kNow, kInterval, kLastResolve, kRemote, kLocal, kDials, kResolveLog>>
    /\ UNCHANGED <<udpVars, udpHist, streamVars, decodeVars, parseVars, backoffVars,
                   serverVars>>

ConnNext ==
    \/ \E ok \in BOOLEAN : Conn_resolve(ok)
    \/ Conn_resolveLock
    \/ Conn_resolveStore
    \/ Conn_resolveUnlock
    \/ Conn_checkInterval
    \/ Conn_stamp
    \/ Conn_lockOld
    \/ Conn_closeOld
    \/ Conn_unlockOld
    \/ \E ok \in BOOLEAN : Conn_dial(ok)
    \/ Conn_lockNew
    \/ Conn_storeNew
    \/ Conn_unlockNew
    \/ Conn_tick
    \/ Conn_reconnect
    \/ \E next \in {"ir_read", "wr_read"} : Conn_readLock(next)
    \/ Conn_isConnReady
    \/ Conn_writeRead
    \/ Conn_writeUnlock
    \/ Conn_writeSocket
    \/ Conn_closeLock
    \/ Conn_closeConn

ConnSpec == ConnInit /\ [][ConnNext]_vars

(***************************************************************************)
(* Specification ServerSpec: udp.Server.Run reading datagrams, with        *)
(* hue.Adapter as its CommandHandler and the bridge's grouped light behind *)
(* it.                                                                     *)
(***************************************************************************)
MaxDatagrams == 3   \* bound: datagrams read by Run

\* the datagrams sent to the server in the model
ServerDatagrams ==
    { <<>>, <<" ", "\n">> }
    \cup { Slashed(<<sGroupedLight, sId, sOn>>) \o <<" ">> \o v \o <<"\n">> :
             v \in {sTrue, sFalse, <<"1">>, <<"0">>, <<"T", "R", "U", "E">>,
                    <<"m", "a", "y", "b", "e">>} }
    \cup { Slashed(<<sGroupedLight, sId, sDimmable>>) \o <<" ">> \o v :
             v \in {<<"5", "0">>, <<"1", "0", "0">>, <<"1", "0", "1">>} }
    \cup { Slashed(<<sSensor, sId, sOn>>) \o <<" ">> \o sTrue }

\* what a call of the bridge's API can come to
ApiOutcomes == {"ok", "fail"}

\* applyGroupedLight on a bridge whose grouped light is (on, bri).  "on":
\* the value is computed but not used; the light is fetched (the error is
\* dropped, so a failed fetch leaves a nil light whose Toggle panics) and
\* UpdateLight is called with light.Toggle(), the opposite of the state
\* fetched.  "dimmable": UpdateGroupedLight with the parsed brightness.
applyGroupedLight(cmd, on, bri, get, upd) ==
    IF cmd.Action = sOn
    THEN IF get = "fail" THEN [res |-> "panic", on |-> on, bri |-> bri]
         ELSE IF upd = "fail" THEN [res |-> "error", on |-> on, bri |-> bri]
         ELSE [res |-> "ok", on |-> ~on, bri |-> bri]
    ELSE IF cmd.Action = sDimmable
    THEN IF upd = "fail" THEN [res |-> "error", on |-> on, bri |-> bri]
         ELSE [res |-> "ok", on |-> on, bri |-> Atoi(cmd.Value).n]
    ELSE [res |-> "error", on |-> on, bri |-> bri]

\* Adapter.Apply: only the domain grouped_light is supported
Apply(cmd, on, bri, get, upd) ==
    IF cmd.Domain = sGroupedLight
    THEN applyGroupedLight(cmd, on, bri, get, upd)
    ELSE [res |-> "error", on |-> on, bri |-> bri]

ServerInit ==
    /\ NewClient
    /\ NewStreamer
    /\ NoDecode
    /\ NoParse
    /\ NoBackoff
    /\ NoConn
    /\ vPc = "read"
    /\ vCtxDone = FALSE
    /\ vRet = "none"
    /\ vLast = "none"
    /\ vCmd = <<>>
    /\ vLightOn \in BOOLEAN
    /\ vBri \in {0, 50}
    /\ vSeen = 0

serverOthers ==
    UNCHANGED <<udpVars, udpHist, streamVars, decodeVars, parseVars, backoffVars,
                connVars>>

\* ReadFromUDP runs into its one-second deadline: return ctx.Err() when the
\* context is cancelled, else read again
Server_timeout ==
    /\ vPc = "read"
    /\ vLast' = "timeout"
    /\ IF vCtxDone THEN vPc' = "returned" /\ vRet' = "ctx"
                   ELSE UNCHANGED <<vPc, vRet>>
    /\ UNCHANGED <<vCtxDone, vCmd, vLightOn, vBri, vSeen>>
    /\ serverOthers

\* ReadFromUDP fails with an error that is no timeout: return ctx.Err() when
\* the context is cancelled, else return the read error
Server_readError ==
    /\ vPc = "read"
    /\ vLast' = "read error"
    /\ vPc' = "returned"
    /\ vRet' = IF vCtxDone THEN "ctx" ELSE "read error"
    /\ UNCHANGED <<vCtxDone, vCmd, vLightOn, vBri, vSeen>>
    /\ serverOthers

\* ReadFromUDP delivers the datagram d: trim, parse, Apply, and read again
Server_datagram(d, get, upd) ==
    /\ vPc = "read"
    /\ vSeen < MaxDatagrams
    /\ vSeen' = vSeen + 1
    /\ LET line == Trim(d, Whitespace)
           parsed == parseCommand(line)
       IN IF line = <<>>
          THEN /\ vLast' = "empty"
               /\ UNCHANGED <<vPc, vCmd, vLightOn, vBri>>
          ELSE IF parsed.err # "none"
          THEN /\ vLast' = "invalid"
               /\ UNCHANGED <<vPc, vCmd, vLightOn, vBri>>
          ELSE LET a == Apply(parsed.cmd, vLightOn, vBri, get, upd) IN
               /\ vCmd' = parsed.cmd
               /\ vLightOn' = a.on
               /\ vBri' = a.bri
               /\ vLast' = CASE a.res = "ok" -> "applied"
                             [] a.res = "error" -> "apply failed"
                             [] OTHER -> "panic"
               /\ vPc' = IF a.res = "panic" THEN "crashed" ELSE "read"
    /\ UNCHANGED <<vCtxDone, vRet>>
    /\ serverOthers

\* the context handed to Run is cancelled
Server_cancel ==
    /\ vPc = "read"
    /\ ~vCtxDone
    /\ vCtxDone' = TRUE
    /\ UNCHANGED <<vPc, vRet, vLast, vCmd, vLightOn, vBri, vSeen>>
    /\ serverOthers

ServerNext ==
    \/ Server_timeout
    \/ Server_readError
    \/ \E d \in ServerDatagrams : \E get \in ApiOutcomes : \E upd \in ApiOutcomes :
          Server_datagram(d, get, upd)
    \/ Server_cancel

ServerSpec == ServerInit /\ [][ServerNext]_vars

(***************************************************************************)
(* Properties of the relay queue and of Send                               *)
(***************************************************************************)

\* C1: in every reachable state, whatever the interleaving of the producers'
\* Send steps with the drain loop's dequeues, the queue holds at most
\* QueueSize messages.
C1_QueueNeverExceedsCapacity == Len(ch) <= QueueSize

\* C1 witness: the queue is full while a Send call that found it full is in
\* progress, two Send calls have overlapped, and the drain loop has dequeued.
C1_Witness ==
    /\ Len(ch) = QueueSize
    /\ concurrent
    /\ deqLog # <<>>
    /\ \E p \in Producers : sendPc[p] = "evict"

\* C2: after QueueSize+1 Send calls made one after the other with no dequeue by
\* the drain loop, the queue holds exactly the QueueSize most recent messages
\* in the order they were handed to Send, and the first one is the one that
\* was evicted.
C2_SequentialSendsKeepMostRecent ==
    ( /\ ~concurrent
      /\ deqLog = <<>>
      /\ \A p \in Producers : sendPc[p] = "idle"
      /\ Len(calledLog) = QueueSize + 1 )
    => /\ ch = SubSeq(calledLog, 2, QueueSize + 1)
       /\ evicted = <<calledLog[1]>>
       /\ discarded = {}

\* C2 witness: QueueSize+1 sequential Send calls have returned, nothing was
\* dequeued.
C2_Witness ==
    /\ ~concurrent
    /\ deqLog = <<>>
    /\ \A p \in Producers : sendPc[p] = "idle"
    /\ Len(calledLog) = QueueSize + 1
    /\ Len(ch) = QueueSize

\* C3: as long as no Send has evicted a message, the messages the drain loop
\* has dequeued followed by those still queued are exactly the messages
\* enqueued, in enqueue order.
C3_FifoWithoutEviction ==
    (evicted = <<>>) => (enqLog = deqLog \o ch)

\* C3 witness: several messages were dequeued, another one is queued, and no
\* eviction has happened.
C3_Witness ==
    /\ evicted = <<>>
    /\ Len(deqLog) >= 2
    /\ Len(ch) >= 1

\* C4: Send always returns: no Send call ends in a crash, whatever the drain
\* loop is doing (blocked in a write, sleeping, reconnecting, or exited
\* after the context was cancelled).
C4_SendAlwaysReturns ==
    \A p \in Producers : sendPc[p] # "panicked"

\* C4, the part about waiting: while the process has not crashed, a Send call
\* in progress is never disabled; its next channel operation can be taken in
\* every state, and a call makes at most three of them.
C4_SendNeverWaits ==
    \A p \in Producers :
        /\ (SendInProgress(p) /\ ~panicked) =>
             ENABLED (Send_try(p) \/ Send_evict(p) \/ Send_retry(p))

\* C5: a Send call removes at most one queued message, the oldest one; when
\* the retried insert finds the queue full, the new message is discarded and
\* Send returns.
C5_EvictOneThenDiscard ==
    /\ [](\A p \in Producers : Len(removed[p]) <= 1)
    /\ [][\A p \in Producers :
            /\ (sendPc[p] = "evict" /\ sendPc'[p] = "retry" /\ ch # <<>>)
                 => (removed'[p] = <<Head(ch)>> /\ ch' = Tail(ch))
            /\ (sendPc[p] = "retry" /\ sendPc'[p] # "retry" /\ Len(ch) = QueueSize)
                 => (sendPc'[p] = "idle" /\ ch' = ch /\ sendMsg[p] \in discarded')
         ]_vars

\* C6: once the shutdown signal is set, the drain loop starts no socket write
\* for a message it dequeued after the signal, and no further retry attempt
\* for the message in flight.
C6_NoWriteAfterShutdown ==
    [][(ctxDone /\ drainPc # "writing" /\ drainPc' = "writing")
          => ~(lateDequeue \/ attempt >= 2)]_vars

\* C7: Close cancels, then closes the queue, then waits for the drain loop,
\* then closes the socket: whenever Close is at or past closing the socket the
\* drain loop has exited, and the earlier steps have happened in order.
C7_CloseOrder ==
    /\ closePc = "closeCh" => (ctxDone /\ ~chClosed)
    /\ closePc = "wait" => (ctxDone /\ chClosed)
    /\ closePc \in {"closeConn", "done"} => (ctxDone /\ chClosed /\ drainPc = "exited")
    /\ closePc = "done" => conn = "nil"

\* C7 witness: Close is about to close a socket that the drain loop has used;
\* the drain loop dequeued a message before it exited.
C7_Witness ==
    /\ closePc = "closeConn"
    /\ conn = "open"
    /\ deqLog # <<>>
    /\ drainPc = "exited"


\* C22: for each dequeued message the drain loop makes at most
\* maxSendAttempts socket write attempts; a successful write ends the
\* handling of the message; every attempt after the first follows a backoff
\* sleep, and every backoff sleep of the retry loop follows a reconnect.
C22_AtMostThreeWriteAttempts ==
    /\ [](writesOf <= maxSendAttempts /\ attempt <= maxSendAttempts)
    /\ [][runSender_writeDone("ok") => (drainPc' = "select" /\ msg' = Nil)]_vars
    /\ [][(drainPc = "writing" /\ drainPc' # "writing")
            => \/ (drainPc' = "select" /\ msg' = Nil /\ writesOf' = 0)
               \/ (drainPc' = "sleepRetry" /\ msg' = msg)]_vars
    /\ [][(attempt >= 1 /\ attempt' > attempt) => drainPc = "sleepRetry"]_vars
    /\ [][(drainPc # "sleepRetry" /\ drainPc' = "sleepRetry")
            => /\ drainPc = "writing"
               /\ \E out \in ReconnectOutcomes :
                    /\ conn' = reconnect(out).conn
                    /\ remoteUDP' = reconnect(out).remoteUDP]_vars

\* C22 witness: the third socket write of one message is in progress.
C22_Witness ==
    /\ drainPc = "writing"
    /\ attempt = maxSendAttempts
    /\ writesOf = maxSendAttempts

\* C23: a message the drain loop has dequeued is never in the queue again;
\* the queue grows only by the insert of a Send call; the drain loop takes
\* the message at the front; giving a message up leaves the queue as it is.
C23_DequeuedNeverRequeued ==
    /\ [](\A i \in 1..Len(ch) : \A j \in 1..Len(deqLog) : ch[i] # deqLog[j])
    /\ [][Len(ch') > Len(ch)
            => \E p \in Producers :
                 sendPc[p] \in {"try", "retry"} /\ ch' = chSend(ch, sendMsg[p])]_vars
    /\ [][deqLog' # deqLog
            => (ch # <<>> /\ deqLog' = Append(deqLog, Head(ch)) /\ ch' = Tail(ch))]_vars
    /\ [][(drainPc \in {"write", "writing", "sleepRetry"} /\ drainPc' = "select")
            => (msg' = Nil /\ ch' = ch)]_vars

\* C23 witness: the retry attempts of a message are exhausted while another
\* message waits in the queue.
C23_Witness ==
    /\ drainPc = "sleepRetry"
    /\ attempt = maxSendAttempts
    /\ writesOf = maxSendAttempts
    /\ ch # <<>>

\* C24: when a write fails with an error that is not retryable, the message
\* is given up at once: no reconnect, no sleep, the backoff keeps its value.
C24_NonRetryableAbandonsAtOnce ==
    [][runSender_writeDone("EINVAL")
         => /\ drainPc' = "select"
            /\ msg' = Nil
            /\ conn' = conn
            /\ remoteUDP' = remoteUDP
            /\ backoff' = backoff
            /\ attempt = 1 => writesOf = 1]_vars

\* C24 witness: the one message dequeued so far has been given up with the
\* socket still open and the backoff above its base, which a successful
\* write would have reset.
C24_Witness ==
    /\ drainPc = "select"
    /\ msg = Nil
    /\ Len(deqLog) = 1
    /\ conn = "open"
    /\ backoff # BaseBackoff

\* C25: a message dequeued while there is no connection, whose reconnect
\* failed, is not dropped at a write attempt before the retry limit.
C25_NoConnectionIsRetried ==
    [][(drainPc = "write" /\ conn = "nil" /\ attempt < maxSendAttempts)
          => drainPc' # "select"]_vars

\* C27: every delay the drain loop sleeps, after a failed reconnect or
\* between write attempts, is at most MaxBackoff.
C27_SleepAtMostMaxBackoff ==
    drainPc \in {"sleepReconnect", "sleepRetry"} => backoff <= MaxBackoff

\* s is a subsequence of t: s is t with some entries left out
RECURSIVE IsSubseq(_, _)
IsSubseq(s, t) ==
    IF s = <<>> THEN TRUE
    ELSE IF t = <<>> THEN FALSE
    ELSE IF Head(s) = Head(t) THEN IsSubseq(Tail(s), Tail(t))
    ELSE IsSubseq(s, Tail(t))

\* C33: the drain loop writes only the message it dequeued last, the
\* messages it dequeues are, in order, a subsequence of the messages in the
\* order they were enqueued, and when no two Send calls have overlapped they
\* come out in the order of the Send calls.
C33_WritesKeepEnqueueOrder ==
    /\ [](IsSubseq(deqLog, enqLog))
    /\ [](~concurrent => IsSubseq(deqLog, calledLog))
    /\ [](drainPc \in {"write", "writing", "sleepRetry"}
             => (deqLog # <<>> /\ msg = deqLog[Len(deqLog)]))
    /\ [][runSender_writeDone("ok") => (msg = deqLog[Len(deqLog)] /\ msg' = Nil)]_vars

\* C33 witness: with one Send call at a time, two messages were written
\* after a message between or before them was lost, and the second write has
\* just succeeded.
C33_Witness ==
    /\ ~concurrent
    /\ Len(deqLog) = 2
    /\ deqLog # SubSeq(enqLog, 1, 2)
    /\ drainPc = "select"
    /\ msg = Nil
    /\ conn = "open"
    /\ ~ctxDone

\* C37: a Send call that is in progress once Close has begun never crashes:
\* each of its channel operations either moves it to its next select or
\* lets it return, with its message queued or discarded.
C37_SendDuringCloseNeverCrashes ==
    [][\A p \in Producers :
          (closePc # "idle" /\ SendInProgress(p) /\ sendPc'[p] # sendPc[p])
             => /\ sendPc'[p] \in {"idle", "evict", "retry"}
                /\ ~panicked']_vars

(***************************************************************************)
(* Properties of the stream reader                                         *)
(***************************************************************************)
\* the messages of every record of recs that decodes, in record order
RECURSIVE messagesOfWellFormed(_)
messagesOfWellFormed(recs) ==
    IF recs = <<>> THEN <<>>
    ELSE LET ev == decodeResource(Head(recs)) IN
         (IF ev.err THEN <<>> ELSE dispatch(ev)) \o messagesOfWellFormed(Tail(recs))

\* C8: a decode failure on one record of a frame does not keep the other
\* records from being decoded and dispatched: the messages handle gives to
\* Send for a frame are those of all its well-formed records, before and
\* after a bad one.
C8_BadRecordDoesNotDropTheRest ==
    hOut = messagesOfWellFormed(hRecs)

\* C9: a malformed payload for a known discriminator does not halt the
\* stream: after the frame that failed to decode, the stream attempt is
\* still in its read loop on the same connection (it has not returned to
\* Run for a backoff sleep and a reconnect).
C9_DecodeErrorKeepsStreamOpen ==
    (hErr = "decode" /\ ~sCtxDone) => runPc = "reading"

\* a step of the read loop on a blank line
BlankLineStep == streamOnce_line([kind |-> "blank"])

\* C31: a blank line that ends a frame whose payload is no JSON array of
\* containers dispatches nothing, clears the buffer and leaves the attempt in
\* its read loop on the same connection; every blank line that ends a frame
\* whose payload is such an array hands it to handle and queues the
\* resulting messages, whatever was discarded before on that connection.
C31_BadFrameIsDiscarded ==
    /\ [][(BlankLineStep /\ buf # <<>> /\ ~unmarshalContainers(buf).ok)
             => /\ hErr' = "bad JSON"
                /\ hOut' = <<>>
                /\ ch' = ch
                /\ buf' = <<>>
                /\ runPc' = "reading"
                /\ sBackoff' = sBackoff]_vars
    /\ [][(BlankLineStep /\ buf # <<>> /\ unmarshalContainers(buf).ok)
             => /\ hRecs' = recordsOf(unmarshalContainers(buf).containers)
                /\ hOut' = handle(unmarshalContainers(buf).containers).msgs
                /\ ch' = SendAll(ch, hOut')]_vars
    /\ [](hErr = "bad JSON" => (runPc = "reading" /\ buf = <<>> /\ hOut = <<>>))

\* C31 witness: on a connection that has dispatched a frame, a frame that is
\* no JSON array has just been discarded and the read loop goes on.
C31_Witness ==
    /\ runPc = "reading"
    /\ hErr = "bad JSON"
    /\ sFrameOk
    /\ buf = <<>>
    /\ ch # <<>>

\* C32: a data: line appends its payload to the buffer, behind those that
\* arrived before, and dispatches nothing; a blank line with a non-empty
\* buffer hands the whole buffer to the decoder once and empties the buffer;
\* a blank line with an empty buffer and a line that is no data: line
\* dispatch nothing and leave the buffer as it is.
C32_FramesAreAccumulated ==
    /\ [][\A line \in Lines :
            (line.kind = "data" /\ streamOnce_line(line))
               => /\ buf' = buf \o <<line.payload>>
                  /\ hOut' = <<>>
                  /\ ch' = ch]_vars
    /\ [][(BlankLineStep /\ buf # <<>>)
             => /\ buf' = <<>>
                /\ hRecs' = recordsOf(unmarshalContainers(buf).containers)
                /\ hOut' = handle(unmarshalContainers(buf).containers).msgs]_vars
    /\ [][((BlankLineStep /\ buf = <<>>) \/ streamOnce_line([kind |-> "other"]))
             => /\ buf' = buf
                /\ hOut' = <<>>
                /\ ch' = ch]_vars

\* C32 witness: a frame that arrived on two data: lines has been handed to
\* the decoder as one payload and its message is queued.
C32_Witness ==
    /\ runPc = "reading"
    /\ buf = <<>>
    /\ hRecs = <<rUnknown, rContact>>
    /\ hOut # <<>>
    /\ hErr = "none"

\* s is an initial part of t
IsPrefix(s, t) == Len(s) <= Len(t) /\ s = SubSeq(t, 1, Len(s))

\* the second half of C33: the messages of one frame are handed to Send in
\* the order of the frame's records, one Send after the other.
C33_FrameMessagesInRecordOrder ==
    /\ [](IsPrefix(hOut, messagesOfWellFormed(hRecs)))
    /\ [][(BlankLineStep /\ buf # <<>>) => ch' = SendAll(ch, hOut')]_vars

(***************************************************************************)
(* Properties of the decoder                                               *)
(***************************************************************************)

\* C10: decoding a record whose discriminator is not in the known set never
\* returns an error; it yields an UnknownEvent carrying the discriminator
\* string and the original bytes unchanged, and its dispatch enqueues no
\* wire message.
C10_UnknownDiscriminatorIsKept ==
    (dPc = "done" /\ HasDiscriminator(dRec) /\ dRec.type.s \notin KnownTypes)
    => /\ dEv.err = FALSE
       /\ dEv.kind = "UnknownEvent"
       /\ dEv.Type = dRec.type.s
       /\ dEv.Raw = dRec
       /\ dOut = <<>>
       /\ ch = <<>>
       /\ hErr = "none"

\* C10 witness: a record with discriminator "button", an owner and a
\* contact report has been decoded and dispatched.
C10_Witness ==
    /\ dPc = "done"
    /\ HasDiscriminator(dRec)
    /\ dRec.type.s = "button"
    /\ dRec.owner.p = "ok"
    /\ dRec.contact_report.p = "ok"

\* C16: Run returns only after the shutdown context has been cancelled, and
\* every failed stream attempt (connect error, unexpected status, read error,
\* error from dispatch) goes to a backoff sleep that is followed by a new
\* stream attempt, however many attempts have failed before.
C16_RunNeverGivesUp ==
    /\ [](runPc = "returned" => sCtxDone)
    /\ [][(runPc \in {"connect", "reading"} /\ runPc' \notin {"connect", "reading"}
            /\ ~sCtxDone)
           => (IF hErr' = "none" THEN runPc' = "top" ELSE runPc' = "sleep")]_vars
    /\ [][(runPc = "sleep" /\ runPc' # "sleep" /\ ~sCtxDone) => runPc' = "top"]_vars
    /\ [][(runPc = "top" /\ runPc' # "top" /\ ~sCtxDone) => runPc' = "connect"]_vars
    /\ (runPc = "sleep") ~> (runPc = "connect" \/ sCtxDone)

\* C16 witness: a new stream attempt starts with the backoff at its maximum:
\* five or more attempts in a row have failed.
C16_Witness ==
    /\ runPc = "connect"
    /\ sBackoff = backoffMax
    /\ ~sCtxDone

\* C17: when the context is cancelled during the backoff sleep, Run can
\* return at once, without the timer, and once the context is cancelled
\* no new stream attempt is started.
C17_ShutdownEndsBackoffSleep ==
    /\ []((runPc = "sleep" /\ sCtxDone) => ENABLED Run_sleepCancelled)
    /\ [][(sCtxDone /\ runPc # "connect") => runPc' # "connect"]_vars
    /\ [][(sCtxDone /\ runPc = "sleep" /\ runPc' # "sleep")
            => runPc' \in {"returned", "top"}]_vars

\* C17 witness: the context is cancelled while Run is in a backoff sleep
\* that follows a decode error, after earlier failures.
C17_Witness ==
    /\ runPc = "sleep"
    /\ sCtxDone
    /\ hErr = "decode"
    /\ sBackoff > 1

\* C18: when the context is cancelled while the drain loop sleeps (after a
\* failed reconnect or a failed retryable write), the drain loop does not go
\* on to another write attempt.
C18_ShutdownEndsDrainSleep ==
    [][(ctxDone /\ drainPc \in {"sleepReconnect", "sleepRetry"})
          => drainPc' # "write"]_vars

\* a record that has been decoded and dispatched, with discriminator t
Dispatched(t) ==
    dPc = "done" /\ HasDiscriminator(dRec) /\ dRec.type.s = t

C12_LightLevelYieldsMessage ==
    (Dispatched("light_level") /\ dRec.light.p = "ok"
       /\ dRec.light.light_level_report.p = "ok" /\ dRec.owner.p = "ok")
    => /\ Len(dOut) = 1
       /\ dOut[1].path = <<"sensor", dRec.owner.rid, "light_level">>

\* the one message of a motion report: kind is "sensor" or "group"
MotionMessage(kind, id, motion) ==
    [path |-> <<kind, id, "motion">>, value |-> [text |-> IF motion THEN "1" ELSE "0"]]

\* a record that carries a well-formed motion report, dispatched
MotionReported ==
    /\ (Dispatched("motion") \/ Dispatched("grouped_motion"))
    /\ dRec.owner.p # "bad"
    /\ dRec.motion.p = "ok"
    /\ dRec.motion.motion_report.p = "ok"

\* C13 as stated: plain and grouped motion records with the same motion
\* report yield /sensor/<id>/motion and /group/<id>/motion, whatever else
\* the record holds.
C13_MotionKindsAnyOwner ==
    MotionReported
    => dOut = <<MotionMessage(IF dRec.type.s = "motion" THEN "sensor" ELSE "group",
                              IF dRec.owner.p = "ok" THEN dRec.owner.rid ELSE "",
                              dRec.motion.motion_report.motion)>>

\* C13 amended: the discriminator alone decides between /sensor/<id>/motion
\* and /group/<id>/motion, with value 1 for motion true and 0 for false,
\* for a record that has an owner id and, when grouped, is not owned by the
\* bridge_home; a plain motion record without an owner id and a grouped one
\* owned by the bridge_home yield no message.
C13_MotionKindsByDiscriminator ==
    MotionReported
    => LET t == dRec.type.s
           id == IF dRec.owner.p = "ok" THEN dRec.owner.rid ELSE ""
           skipped == \/ (t = "motion" /\ id = "")
                      \/ (t = "grouped_motion" /\ dRec.owner.p = "ok"
                            /\ dRec.owner.rtype = "bridge_home")
       IN  /\ ~dEv.err
           /\ skipped => dOut = <<>>
           /\ ~skipped =>
                dOut = <<MotionMessage(IF t = "motion" THEN "sensor" ELSE "group",
                                       id, dRec.motion.motion_report.motion)>>
           /\ ch = dOut

\* C13 witness: a grouped motion record of owner a1 reporting motion has
\* been dispatched to /group/a1/motion 1.
C13_Witness ==
    /\ MotionReported
    /\ dRec.type.s = "grouped_motion"
    /\ dRec.owner.p = "ok"
    /\ dRec.owner.rtype # "bridge_home"
    /\ dRec.motion.motion_report.motion
    /\ ch = <<MotionMessage("group", "a1", TRUE)>>

\* discriminators whose events handle only logs
LoggedOnlyTypes == {"light", "tamper", "scene", "zigbee_connectivity",
                    "grouped_light", "geofence_client", "grouped_light_level"}

\* C14: a decoded event that lacks its relevant sub-report enqueues no wire
\* message, and light, tamper, scene, zigbee_connectivity, grouped_light and
\* muted events never enqueue one, whatever the record holds.
C14_NoReportNoMessage ==
    (dPc = "done" /\ HasDiscriminator(dRec))
    => LET t == dRec.type.s
           lacks == \/ t = "contact" /\ dRec.contact_report.p = "absent"
                    \/ /\ t \in {"motion", "grouped_motion"}
                       /\ \/ dRec.motion.p = "absent"
                          \/ (dRec.motion.p = "ok" /\ dRec.motion.motion_report.p = "absent")
                    \/ /\ t = "temperature"
                       /\ \/ dRec.temperature.p = "absent"
                          \/ /\ dRec.temperature.p = "ok"
                             /\ dRec.temperature.temperature_report.p = "absent"
                    \/ t = "light" /\ dRec.on.p = "absent"
       IN  (lacks \/ t \in LoggedOnlyTypes) => (dOut = <<>> /\ ch = <<>>)

\* C14 witness: a light record with an on object and an owner has been
\* decoded into a LightEvent and dispatched.
C14_Witness ==
    /\ Dispatched("light")
    /\ ~dEv.err
    /\ dEv.kind = "LightEvent"
    /\ dEv.On.p = "ok"
    /\ dRec.owner.p = "ok"

\* C15: every datagram the dispatch step enqueues has a non-empty resource
\* kind, a non-empty resource id and a non-empty field.
C15_DatagramPathComplete ==
    dPc = "done" =>
      \A i \in 1..Len(dOut) : \A j \in 1..3 : dOut[i].path[j] # ""

\* C15, the part about temperature: a temperature report yields
\* /sensor/<id>/temperature with the value printed with two decimals,
\* rounded to the nearest hundredth.
C15_TemperatureTwoDecimals ==
    (Dispatched("temperature") /\ dRec.owner.p # "bad" /\ dRec.temperature.p = "ok"
       /\ dRec.temperature.temperature_report.p = "ok")
    => LET x == dRec.temperature.temperature_report.temperature IN
       /\ Len(dOut) = 1
       /\ dOut[1].path[1] = "sensor" /\ dOut[1].path[3] = "temperature"
       /\ dOut[1].value.frac \in 0..99
       /\ x = 21504 => dOut[1].value = [whole |-> 21, frac |-> 50]
       /\ x = 19000 => dOut[1].value = [whole |-> 19, frac |-> 0]

(***************************************************************************)
(* Properties of parseCommand                                              *)
(***************************************************************************)
\* "<path> <value>" with one space and nothing around it
PlainLine(path, value) == path \o <<" ">> \o value

\* the valid lines "/grouped_light/abc-123/<action> <value>" of the claim:
\* <<action, value>> pairs
ValidCommands ==
    { <<sOn, v>> : v \in {sTrue, <<"1">>, <<"0">>} }
    \cup { <<sDimmable, v>> : v \in {<<"0">>, <<"5", "0">>, <<"1", "0", "0">>} }

\* what parseCommand must return for the valid line of action av[1] and
\* value av[2], with the given Domain
ParsesTo(domain) ==
    \A av \in ValidCommands :
        (pPc = "done" /\ pLine = PlainLine(Slashed(<<sGroupedLight, sId, av[1]>>), av[2]))
        => /\ pRes.err = "none"
           /\ pRes.cmd = [Domain |-> domain, ID |-> sId, Action |-> av[1],
                          Value |-> av[2]]

RECURSIVE Squeeze(_, _)
Squeeze(s, st) ==
    IF s = <<>> THEN <<>>
    ELSE IF Head(s) \in Whitespace
         THEN Squeeze(Tail(s), IF st = "start" THEN "start" ELSE "gap")
         ELSE (IF st = "gap" THEN <<" ">> ELSE <<>>) \o <<Head(s)>>
                \o Squeeze(Tail(s), "word")

\* C20: a line with extra leading, trailing or separating whitespace returns
\* the same Command, or the same error, as its form with single spaces and no
\* surrounding whitespace.
C20_WhitespaceInsensitive ==
    pPc = "done" => pRes = parseCommand(Squeeze(pLine, "start"))

\* C20 witness: a line with leading, trailing and repeated separating
\* whitespace has been parsed into a Command.
C20_Witness ==
    /\ pPc = "done"
    /\ pLine = <<" ", " ", " ">> \o Slashed(<<sGroupedLight, sId, sOn>>)
                 \o <<" ", " ", " ">> \o sTrue \o <<" ", " ", " ">>
    /\ pRes.err = "none"
    /\ pRes.cmd.Value = sTrue

\* the path of the line as the wire format describes it: "/" followed by
\* exactly three parts, <domain>/<resource-id>/<action>, none of them empty
PathParts(path) == Split(Tail(path), "/")

WellFormedPath(path) ==
    /\ path # <<>>
    /\ Head(path) = "/"
    /\ Len(PathParts(path)) = 3
    /\ \A i \in 1..3 : PathParts(path)[i] # <<>>

\* the value is true, false, 1 or 0 in any letter case
OnValue(v) ==
    \/ v \in {<<"1">>, <<"0">>}
    \/ Len(v) = 4 /\ \A i \in 1..4 : v[i] \in {sTrue[i], <<"T", "R", "U", "E">>[i]}
    \/ Len(v) = 5 /\ \A i \in 1..5 : v[i] \in {sFalse[i], <<"F", "A", "L", "S", "E">>[i]}

\* the value is a decimal integer in 0..100
DimmableValue(v) ==
    LET body == IF v # <<>> /\ Head(v) \in {"+", "-"} THEN Tail(v) ELSE v IN
    /\ body # <<>>
    /\ \A i \in 1..Len(body) : IsDigit(body[i])
    /\ \/ \A i \in 1..Len(body) : body[i] = "0"
       \/ Head(v) # "-" /\ DigitsVal(body, 0) <= 100

\* what the claim says of a line: "none" when it is accepted, else the error
ExpectedOutcome(line) ==
    LET f == Fields(line) IN
    IF Len(f) < 2 THEN "expected '<path> <value>'"
    ELSE IF ~WellFormedPath(f[1]) THEN "bad path"
    ELSE LET parts == PathParts(f[1]) IN
         IF parts[1] # sGroupedLight THEN "unsupported domain"
         ELSE IF parts[3] = sOn
              THEN (IF OnValue(f[2]) THEN "none" ELSE "on expects true|false|1|0")
         ELSE IF parts[3] = sDimmable
              THEN (IF DimmableValue(f[2]) THEN "none" ELSE "dimmable expects 0..100")
         ELSE "unsupported action"

\* C21: parseCommand accepts a line exactly when it has a path and a value,
\* the path is "/", the domain grouped_light, an id and an action, and the
\* value fits the action; every other line is rejected with the error of
\* its first defect.
C21_AcceptsExactlyValidLines ==
    pPc = "done" => pRes.err = ExpectedOutcome(pLine)

\* C21, on the lines whose path has at most three parts and no empty one:
\* acceptance and each error are as the claim says.
C21_ErrorsOnPlainPaths ==
    (pPc = "done" /\ Len(Fields(pLine)) >= 2
       /\ LET segs == Split(Fields(pLine)[1], "/") IN
          Len(segs) <= 4 /\ \A i \in 2..Len(segs) : segs[i] # <<>>)
    => pRes.err = ExpectedOutcome(pLine)

(***************************************************************************)
(* Properties of Run's reconnect backoff                                   *)
(***************************************************************************)
\* C28: the reconnect delay of Run starts at 1 s, is doubled (up to 30 s)
\* by every sleep that ends, changes in no other way than by that doubling
\* or by a reset to 1 s, and is always between 1 s and 30 s.
C28_DelayDoublesWithinBounds ==
    /\ sBackoff = 1
    /\ [](sBackoff \in 1..backoffMax)
    /\ [][(runPc = "sleep" /\ runPc' = "top")
             => sBackoff' = Min(2 * sBackoff, backoffMax)]_vars
    /\ [][sBackoff' # sBackoff
             => \/ runPc = "sleep" /\ sBackoff' = Min(2 * sBackoff, backoffMax)
                \/ sBackoff' = 1]_vars
    /\ [][(runPc # "sleep" /\ runPc' = "sleep") => sBackoff' = sBackoff]_vars

\* C28 witness: Run sleeps the longest delay, 30 s.
C28_Witness == runPc = "sleep" /\ sBackoff = backoffMax /\ hErr # "none"

\* C29: when the read loop ends with the end of the stream and no error
\* while the context is live, Run sets the backoff to 1 s and is back at the
\* top of its loop, from where the next step is the next connection attempt,
\* with no sleep in between.
C29_CleanCloseResetsBackoff ==
    /\ [][(runPc = "reading" /\ runPc' # "reading" /\ hErr' = "none")
             => (runPc' = "top" /\ sBackoff' = 1)]_vars
    /\ [][(runPc = "top" /\ ~sCtxDone /\ runPc' # "top") => runPc' = "connect"]_vars
    /\ [][(runPc' = "sleep" /\ runPc # "sleep") => hErr' # "none"]_vars

\* C29 witness: an attempt that dispatched a frame has ended cleanly and Run
\* is at the top of its loop with the base delay.
C29_Witness ==
    /\ runPc = "top"
    /\ sFrameOk
    /\ hErr = "none"
    /\ sBackoff = 1
    /\ ~sCtxDone

\* C30: when an attempt that has dispatched at least one frame without error
\* fails with a transport error, the delay slept before the next attempt is
\* the base delay of 1 s.
C30_CleanReadResetsBackoff ==
    (runPc = "sleep" /\ hErr = "read error" /\ sFrameOk) => sBackoff = 1

(***************************************************************************)
(* Properties of the relay sender's backoff                                *)
(***************************************************************************)
\* C26 as stated: across consecutive retryable write failures the delay
\* slept strictly increases from one failure to the next, whatever the
\* configuration and the jitter, and after a success the backoff is
\* BaseBackoff.
C26_DelayAlwaysIncreases ==
    /\ \A i \in 2..Len(bSlept) : bSlept[i] > bSlept[i - 1]
    /\ bPc = "sent" => bCur = bBase

\* C26 amended: across consecutive retryable write failures the delay slept
\* is strictly greater than the previous one whenever the previous delay is
\* at least 2 units and its double does not exceed MaxBackoff; after a
\* successful send the backoff is exactly BaseBackoff.
C26_DelayIncreasesBelowCap ==
    /\ \A i \in 2..Len(bSlept) :
         (bSlept[i - 1] >= 2 /\ 2 * bSlept[i - 1] <= bMax) => bSlept[i] > bSlept[i - 1]
    /\ bPc = "sent" => bCur = bBase

\* C26 witness: three write failures in a row slept strictly increasing
\* delays below the cap, and the success after them has reset the backoff.
C26_Witness ==
    /\ bPc = "sent"
    /\ Len(bSlept) = 3
    /\ bSlept[1] >= 2
    /\ 2 * bSlept[2] <= bMax
    /\ bSlept[1] < bSlept[2] /\ bSlept[2] < bSlept[3]
    /\ bCur = bBase
    /\ bSlept[3] > bBase

(***************************************************************************)
(* Properties of the client's resolution, socket and lock                  *)
(***************************************************************************)
\* C34: with ResolveInterval > 0 any two calls of the resolver are at least
\* ResolveInterval apart, at start-up and while resolution keeps failing
\* too; with ResolveInterval = 0 every reconnect calls the resolver.
C34_ResolutionsAreThrottled ==
    /\ [](kInterval > 0 =>
            \A i \in 2..Len(kResolveLog) : kResolveLog[i] - kResolveLog[i - 1] >= kInterval)
    /\ [][(kInterval = 0 /\ kPc = "rc_check" /\ kPc' # "rc_check") => kPc' = "resolve"]_vars

\* C35: at most one socket is open at any time; a connection handle that is
\* not nil is the open socket; a write goes to an open socket; when reconnect
\* dials, the old socket is closed and the handle is nil; and the handle is
\* nil after a dial that failed.
C35_OneOpenSocket ==
    /\ [](Cardinality(kSockets) <= 1)
    /\ [](kConn # 0 => kConn \in kSockets)
    /\ [](kPc = "rc_dial" => (kConn = 0 /\ kSockets = {}))
    /\ [][(Conn_writeSocket /\ kLocal # 0) => kLocal \in kSockets]_vars
    /\ [][Conn_dial(FALSE) => (kConn' = 0 /\ kSockets' = {})]_vars

\* C35 witness: a write is about to go to the third socket, which is the
\* only open one, the two before it having been replaced by reconnects.
C35_Witness ==
    /\ kPc = "wr_write"
    /\ kDials = 3
    /\ kLocal = 3
    /\ kConn = 3
    /\ kSockets = {3}

\* C36: once NewClient has returned, every statement that reads or writes
\* c.remoteUDP or c.lastResolve runs while c.mu is held.
C36_AddressAndStampUnderLock ==
    [][( /\ kPhase = "run"
         /\ \/ Conn_resolveStore
            \/ Conn_closeOld
            \/ Conn_isConnReady
            \/ Conn_checkInterval
            \/ Conn_stamp )
          => kLock = "held"]_vars

(***************************************************************************)
(* Properties of the command server                                        *)
(***************************************************************************)
\* C38: Run returns only when its context has been cancelled, and after a
\* datagram that is empty, that parseCommand rejects or whose Apply returns
\* an error, Run is reading the next datagram.
C38_RunServesUntilCancelled ==
    /\ [](vPc = "returned" => vCtxDone)
    /\ [][(vSeen' # vSeen /\ vLast' \in {"empty", "invalid", "apply failed"})
             => vPc' = "read"]_vars

\* C39: after an on command has been applied, the grouped light is in the
\* state its value names: on for true and 1, off for false and 0.
C39_OnSetsNamedState ==
    (vLast = "applied" /\ vCmd.Action = sOn)
        => (vLightOn <=> ToLower(vCmd.Value) \in {sTrue, <<"1">>})

=============================================================================
